---- MODULE Spec2Model ----
(***************************************************************************)
(* Model of the Willys service (services/willys-service/lib/willys_parse.js)*)
(*   - the warm context pool and the shared browser handle,                *)
(*   - the BankID login runner runBankIdLogin with its token-only fast     *)
(*     path, its network taps and its timers,                              *)
(*   - the per-identity session store (durable record + local file).       *)
(* Node runs the handlers on one thread: a step of the model is the code   *)
(* between two suspension points (await, timer or event callback).         *)
(***************************************************************************)
EXTENDS Integers, Sequences, FiniteSets, TLC

\* ---------------------------------------------------------------- bounds
NumProcs == 2          \* concurrent callers (requests in flight)
MaxClock == 2          \* Date.now() values seen by the pool harness: 0..MaxClock
MaxCtx == 3            \* browser contexts created in one behaviour
MaxBrowser == 2        \* browser processes launched in one behaviour
MaxLimit == 2          \* largest configured WILLYS_WARM_CONTEXT_LIMIT tried
MaxAttempts == 1       \* login attempts started in one behaviour
MaxResponses == 2      \* BankID responses the page receives during one attempt
MaxSnaps == 1          \* runs of the snapshot timer's callback during one attempt
PollStepMs == 20000    \* time one polling round takes (a sleep(800) plus the request)
WaitStepMs == 50000    \* time between two observed runs of the waiter's interval
MaxSaves == 2          \* completed logins that save a session (session store harness)
MaxRequests == 3       \* page requests (getJsonWithRetry calls) of one receipt fetch
MaxRetries == 8        \* largest `retries` a fetch is called with
MaxRows == 1           \* transactions in one page of the server's answer
MaxUrl == 2            \* distinct receipt URLs the server's transactions lead to
MaxServerPages == 2    \* largest numberOfPages / currentPage the server reports
MaxMaxPages == 2
MaxDescs == 3
MaxLogins == 2         \* login attempts that reach the full flow (concurrent logins harness)
MaxLines == 4       \* largest maxPages a fetch is called with

Procs == 1..NumProcs

\* ------------------------------------------------------------ identities
\* A user id is a string, modelled as a sequence of characters; NoUser is
\* the null identity of an anonymous request.
NoUser == <<>>
Users == { <<"a">>, <<"b", "/">>, <<"b", "_">> }

None == 0              \* null / undefined for contexts, browsers, artifacts
\* Contents of a session file that are no storage state: a file of size 0,
\* and a non-empty file that JSON.parse rejects.
EmptyFile == -1
CorruptFile == -2

\* The timeoutMs values callers pass (POST /willys/login reads it from the body).
TimeoutChoices == {20000, 80000}
\* Math.min(timeoutMs, 60_000): the cap of the token-only flow.
TOKEN_FLOW_CAP_MS == 60000
\* slice(0, 120) in sessionPathFor.
SAFE_NAME_LEN == 120

VARIABLES
  now,                 \* Date.now()
  limit,               \* WILLYS_WARM_CONTEXT_LIMIT (read from the environment at start)
  warmContexts,        \* the Map userId -> {context, lastUsed}, in insertion order
  sharedBrowser,       \* the shared browser handle, None when null
  browsers,            \* number of browser processes launched so far
  disconnected,        \* the browser processes that have disconnected
  contexts,            \* every browser context created: [user, warm, browser, seed]
  closed,              \* ids of the contexts on which close() was invoked
  useOrder,            \* history: the pool's identities, least recently used first
  storeConfigured,     \* SUPABASE_URL and SUPABASE_SERVICE_ROLE_KEY are set
  sessionStore,        \* durable store: user_id -> storage_state (None: no record)
  sessionFile,         \* local session files: path -> storage state (None: no file)
  arts,                \* number of storage states produced so far
  lastSaved,           \* history: user_id -> the state its latest save block persisted
  savedBy,             \* history: storage state -> the identity whose login produced it
  attempts,            \* number of login attempts started so far
  run,                 \* per caller: the frame of its handler (arguments, locals, position)
  fetch                \* the frame of a receipt fetch (fetchReceiptDescriptors and its caller)

poolVars == <<now, limit, warmContexts, sharedBrowser, browsers, disconnected, contexts, closed, useOrder>>
storeVars == <<storeConfigured, sessionStore, sessionFile, arts, lastSaved, savedBy>>
vars == <<poolVars, storeVars, attempts, run, fetch>>

\* ------------------------------------------------------- warm context pool
PoolUsers == { warmContexts[i].uid : i \in DOMAIN warmContexts }
PoolIndex(u) == CHOOSE i \in DOMAIN warmContexts : warmContexts[i].uid = u
PoolEntry(u) == warmContexts[PoolIndex(u)]

RemoveAt(s, i) == SubSeq(s, 1, i - 1) \o SubSeq(s, i + 1, Len(s))

\* Array.prototype.sort((a, b) => a.lastUsed - b.lastUsed): a stable sort,
\* entries with equal lastUsed keep the Map's insertion order.
FirstOldest(s) ==
  CHOOSE i \in DOMAIN s :
    /\ \A j \in DOMAIN s : s[i].lastUsed <= s[j].lastUsed
    /\ \A j \in DOMAIN s : s[j].lastUsed = s[i].lastUsed => i <= j

RECURSIVE SortByLastUsed(_)
SortByLastUsed(s) ==
  IF s = <<>> THEN <<>>
  ELSE LET i == FirstOldest(s) IN <<s[i]>> \o SortByLastUsed(RemoveAt(s, i))

\* Map.set: a new key is appended, an existing key keeps its position.
MapSet(m, u, e) ==
  IF \E i \in DOMAIN m : m[i].uid = u
  THEN [i \in DOMAIN m |-> IF m[i].uid = u THEN e ELSE m[i]]
  ELSE Append(m, e)

\* The entries evictWarmContexts shifts off the sorted array.
EvictedBy(m, lim) ==
  IF Len(m) <= lim THEN {}
  ELSE LET sorted == SortByLastUsed(m)
       IN { sorted[i] : i \in 1..(Len(m) - lim) }

\* A pool that is never evicted.
evictNothing(m, lim) == m

\* evictWarmContexts: the Map after the deletions.
evictWarmContexts(m, lim) ==
  LET gone == { e.uid : e \in EvictedBy(m, lim) }
  IN SelectSeq(m, LAMBDA e : e.uid \notin gone)

\* History of uses: u becomes the most recently used identity of the pool m.
Touch(order, u, m) ==
  LET keep == { m[i].uid : i \in DOMAIN m }
  IN SelectSeq(order, LAMBDA x : x # u /\ x \in keep) \o (IF u \in keep THEN <<u>> ELSE <<>>)

\* ------------------------------------------------------------ session store
Min(a, b) == IF a <= b THEN a ELSE b

\* The characters of \w, "." and "-" that occur in the modelled identities.
SafeChars == {"a", "b", "_", ".", "-"}

\* String(userId).replace(/[^\w.-]/g, "_").slice(0, 120)
SafeName(u) ==
  [i \in 1..Min(Len(u), SAFE_NAME_LEN) |-> IF u[i] \in SafeChars THEN u[i] ELSE "_"]

SESSION_PATH == <<"willys-session.json">>

sessionPathFor(u) ==
  IF u = NoUser THEN SESSION_PATH
  ELSE <<"willys-session-">> \o SafeName(u) \o <<".json">>

Paths == { sessionPathFor(u) : u \in Users \cup {NoUser} }

\* loadSessionFromStore: null without identity or configuration, and when
\* the request fails (fetchOk = FALSE); else the record's storage_state.
loadSessionFromStore(u, fetchOk) ==
  IF u = NoUser \/ ~storeConfigured \/ ~fetchOk THEN None ELSE sessionStore[u]

\* haveSession: the file exists and its size is not 0.
haveSession(path) == sessionFile[path] \notin {None, EmptyFile}

\* The file first, the durable store only without a usable file.
getStorageStateFileFirst(u, path, fetchOk) ==
  IF haveSession(path) /\ sessionFile[path] # CorruptFile THEN sessionFile[path]
  ELSE loadSessionFromStore(u, fetchOk)

\* getStorageStateForUser: the durable store first, then the local file
\* when haveSession holds and the file parses (the catch swallows a failed
\* read or parse), else null.
getStorageStateForUser(u, path, fetchOk) ==
  IF loadSessionFromStore(u, fetchOk) # None THEN loadSessionFromStore(u, fetchOk)
  ELSE IF haveSession(path) /\ sessionFile[path] # CorruptFile THEN sessionFile[path]
  ELSE None

\* storageState: storageState || sessionPath in tryBankIdTokenFlow and
\* createWillysApiContext: the state the caller loaded, else what the
\* session file of the identity holds.
ApiSeed(r) ==
  IF r.storageState # None THEN r.storageState ELSE sessionFile[sessionPathFor(r.userId)]

\* saveSessionToStore: the store after the upsert; nothing is written
\* without identity or configuration, or when the request fails.
saveSessionToStore(u, state, postOk) ==
  IF u = NoUser \/ ~storeConfigured \/ ~postOk THEN sessionStore
  ELSE [sessionStore EXCEPT ![u] = state]

\* ------------------------------------------------------------------ frames
\* The frame of a caller that runs nothing.
Idle ==
  [ pc |-> "idle",            \* position in the handler
    task |-> "none",          \* "login": runBankIdLogin, "acquire": getWarmContext alone
    userId |-> NoUser,
    headless |-> TRUE,
    timeoutMs |-> 0,
    storageState |-> None,    \* the storage state getStorageStateForUser returned
    stateFromDb |-> None,     \* /willys/me: what loadSessionFromStore returned
    tokenTried |-> FALSE,     \* history: tryBankIdTokenFlow was called
    tokenTimeoutMs |-> 0,     \* tryBankIdTokenFlow: its timeoutMs
    api |-> "none",           \* the request context of tryBankIdTokenFlow or of the probe
    browser |-> None,         \* the local `browser`
    context |-> None,         \* the local `context` (the caller's context)
    page |-> FALSE,           \* the page exists (the first network tap is attached)
    checkTap |-> FALSE,       \* the waiter's network tap is attached
    final |-> "unset",        \* the local `final`: unset, ok or timeout
    started |-> 0,            \* the local `started`
    snapshotTimer |-> FALSE,  \* the snapshot interval is set
    snapInFlight |-> FALSE,   \* a snapshot callback is between its awaits
    snaps |-> 0,              \* snapshot callbacks run so far
    waiterTimer |-> FALSE,    \* the waiter's interval `i` is set
    responses |-> 0,          \* BankID responses seen by the page so far
    events |-> <<>>,          \* the events passed to onEvent, in order
    persistCalls |-> 0,       \* history: executions of the save block
    sent |-> 0,               \* responses the handler sent (calls of res.json)
    result |-> "none" ]       \* the returned value: none, ok or fail

Emit(r, e) == [r EXCEPT !.events = Append(@, e)]

SetRun(p, r) == run' = [run EXCEPT ![p] = r]

\* ------------------------------------------------------------ shared browser
\* browser.newContext on browser b with storageState s: the new context
\* and its id.
NewCtxId == Len(contexts) + 1
NewCtx(u, w, b, s) == [user |-> u, warm |-> w, browser |-> b, seed |-> s]

\* storageState: storageState || SESSION_PATH in getWarmContext: the state
\* the caller loaded, else what the anonymous session file holds.
WarmSeed(r) ==
  IF r.storageState # None THEN r.storageState ELSE sessionFile[SESSION_PATH]

\* --------------------------------------------------------- getWarmContext
\* The caller's frame after getWarmContext returned c: the pool harness
\* keeps c; runBankIdLogin uses c or goes on to browser.newContext.
AfterGW(r, c) ==
  IF r.task = "acquire" THEN [Idle EXCEPT !.context = c]
  ELSE IF c # None THEN [r EXCEPT !.context = c, !.pc = "rb_setup"]
  ELSE [r EXCEPT !.pc = "rb_newctx"]

\* The caller's frame after getWarmContext threw: runBankIdLogin's catch
\* has no context to close, emits `error` and returns the failure.
AfterGWThrow(r) ==
  IF r.task = "acquire" THEN Idle
  ELSE [Emit(r, "error") EXCEPT !.pc = "returned", !.result = "fail"]

\* getWarmContext up to its first suspension, called in frame r while the
\* shared handle is sb: the early return for anonymous or visible runs, the
\* hit on an existing entry, else the call of getSharedBrowser, which
\* returns the handle or starts chromium.launch.
getWarmContextCall(p, r, sb) ==
  IF r.userId = NoUser \/ r.headless = FALSE
  THEN /\ SetRun(p, AfterGW(r, None))
       /\ UNCHANGED <<warmContexts, useOrder>>
  ELSE IF r.userId \in PoolUsers
  THEN /\ warmContexts' = [warmContexts EXCEPT ![PoolIndex(r.userId)].lastUsed = now]
       /\ useOrder' = Touch(useOrder, r.userId, warmContexts)
       /\ SetRun(p, AfterGW(r, PoolEntry(r.userId).context))
  ELSE IF sb # None
  THEN /\ SetRun(p, [r EXCEPT !.browser = sb, !.pc = "gw_newctx"])
       /\ UNCHANGED <<warmContexts, useOrder>>
  ELSE /\ SetRun(p, [r EXCEPT !.pc = "gw_launch"])
       /\ UNCHANGED <<warmContexts, useOrder>>

\* A caller calls getWarmContext(u, ..., h).
AcquireAs(p, u, h) ==
  /\ run[p].pc = "idle"
  /\ getWarmContextCall(p, [Idle EXCEPT !.task = "acquire", !.userId = u, !.headless = h],
                        sharedBrowser)
  /\ UNCHANGED <<now, limit, sharedBrowser, browsers, disconnected, contexts, closed, storeVars, attempts, fetch>>

\* A caller acquires the warm context of an identity.
Acquire(p) ==
  \E u \in Users \cup {NoUser}, h \in BOOLEAN : AcquireAs(p, u, h)

\* getSharedBrowser after chromium.launch resolved: the handle is assigned
\* and returned; getWarmContext goes on to browser.newContext.
GW_Launched(p) ==
  /\ run[p].pc = "gw_launch"
  /\ browsers < MaxBrowser
  /\ browsers' = browsers + 1
  /\ sharedBrowser' = browsers + 1
  /\ SetRun(p, [run[p] EXCEPT !.browser = browsers + 1, !.pc = "gw_newctx"])
  /\ UNCHANGED <<now, limit, disconnected, warmContexts, contexts, closed, useOrder, storeVars,
                 attempts, fetch>>

\* The handler getSharedBrowser registered on browser b: b disconnects
\* and the handler sets the shared handle to null, whichever browser the
\* handle refers to.
Disconnect(b) ==
  /\ b \in (1..browsers) \ disconnected
  /\ disconnected' = disconnected \cup {b}
  /\ sharedBrowser' = None
  /\ UNCHANGED <<now, limit, browsers, warmContexts, contexts, closed, useOrder, storeVars,
                 attempts, run, fetch>>

\* chromium.launch rejected: the exception leaves getWarmContext.
GW_LaunchFailed(p) ==
  /\ run[p].pc = "gw_launch"
  /\ SetRun(p, AfterGWThrow(run[p]))
  /\ UNCHANGED <<poolVars, storeVars, attempts, fetch>>

\* getWarmContext after browser.newContext resolved (on a browser that
\* has not disconnected, with a storage state or a session file that
\* parses): the entry is stored, the pool is evicted down to the limit and
\* the context is returned.
GW_Created(p) ==
  /\ run[p].pc = "gw_newctx"
  /\ run[p].browser \notin disconnected
  /\ WarmSeed(run[p]) \notin {None, EmptyFile, CorruptFile}
  /\ Len(contexts) < MaxCtx
  /\ LET r == run[p]
         c == NewCtxId
         m == MapSet(warmContexts, r.userId,
                     [uid |-> r.userId, context |-> c, lastUsed |-> now])
     IN /\ contexts' = Append(contexts, NewCtx(r.userId, TRUE, r.browser, WarmSeed(r)))
        /\ closed' = closed \cup { e.context : e \in EvictedBy(m, limit) }
        /\ warmContexts' = evictWarmContexts(m, limit)
        /\ useOrder' = Touch(useOrder, r.userId, evictWarmContexts(m, limit))
        /\ SetRun(p, AfterGW(r, c))
  /\ UNCHANGED <<now, limit, sharedBrowser, browsers, disconnected, storeVars, attempts, fetch>>

\* browser.newContext rejected: the exception leaves getWarmContext.
GW_CreateFailed(p) ==
  /\ run[p].pc = "gw_newctx"
  /\ SetRun(p, AfterGWThrow(run[p]))
  /\ UNCHANGED <<poolVars, storeVars, attempts, fetch>>

\* Time passes (one millisecond of Date.now()).
Tick ==
  /\ now < MaxClock
  /\ now' = now + 1
  /\ UNCHANGED <<limit, warmContexts, sharedBrowser, browsers, disconnected, contexts, closed, useOrder,
                 storeVars, attempts, run, fetch>>

\* ------------------------------------------------------------ runBankIdLogin
\* The catch block in frame r: the context (if any) has close() invoked,
\* `error` is emitted and the failure is returned.
Catch(p, r) ==
  /\ closed' = IF r.context # None THEN closed \cup {r.context} ELSE closed
  /\ SetRun(p, [Emit(r, "error") EXCEPT !.pc = "returned", !.result = "fail"])

\* The full UI-driven flow begins: the log line, then getSharedBrowser,
\* which starts chromium.launch when the handle is null, and getWarmContext.
EnterFull(p, r) ==
  IF sharedBrowser = None
  THEN /\ SetRun(p, [Emit(r, "log") EXCEPT !.pc = "rb_launch"])
       /\ UNCHANGED <<warmContexts, useOrder>>
  ELSE getWarmContextCall(p, [Emit(r, "log") EXCEPT !.browser = sharedBrowser], sharedBrowser)

\* Math.min(timeoutMs, 60_000) with the cap forgotten.
TokenBudgetUncapped(t) == t

\* The timeoutMs runBankIdLogin hands to tryBankIdTokenFlow.
TokenBudget(t) == Min(t, TOKEN_FLOW_CAP_MS)

\* A login attempt starts: runBankIdLogin is called and awaits
\* getStorageStateForUser. (Callers are interchangeable: an attempt takes
\* the first free one, or one whose attempt has returned.)
Start(p) ==
  /\ run[p].pc \in {"idle", "returned"}
  /\ \A q \in Procs : q < p => run[q].pc # "idle"
  /\ attempts < MaxAttempts
  /\ attempts' = attempts + 1
  /\ \E u \in Users \cup {NoUser}, h \in BOOLEAN, t \in TimeoutChoices :
       SetRun(p, [Idle EXCEPT !.task = "login", !.pc = "rb_load",
                              !.userId = u, !.headless = h, !.timeoutMs = t])
  /\ UNCHANGED <<poolVars, storeVars, fetch>>

\* getStorageStateForUser resolved. With a storage state the token-only
\* flow is called first; without one the full flow begins.
RB_Load(p) ==
  /\ run[p].pc = "rb_load"
  /\ \E fetchOk \in BOOLEAN :
       LET r == run[p]
           st == getStorageStateForUser(r.userId, sessionPathFor(r.userId), fetchOk)
       IN IF st # None
          THEN /\ SetRun(p, [r EXCEPT !.storageState = st, !.tokenTried = TRUE,
                                     !.tokenTimeoutMs = TokenBudget(r.timeoutMs),
                                     !.pc = "tf_new"])
               /\ UNCHANGED <<warmContexts, useOrder>>
          ELSE EnterFull(p, r)
  /\ UNCHANGED <<now, limit, sharedBrowser, browsers, disconnected, contexts, closed, storeVars, attempts, fetch>>

\* tryBankIdTokenFlow: request.newContext, the token request, its text or
\* the QR rendering threw. The catch returns null without disposing a
\* context that was already created (leak); the full flow begins.
TF_Threw(p) ==
  /\ run[p].pc = "tf_new"
  /\ \E created \in BOOLEAN :
       EnterFull(p, [run[p] EXCEPT !.api = IF created THEN "open" ELSE "none"])
  /\ UNCHANGED <<now, limit, sharedBrowser, browsers, disconnected, contexts, closed, storeVars, attempts, fetch>>

\* tryBankIdTokenFlow: the token response is not ok or is no BankID token:
\* the request context is disposed, null is returned, the full flow begins.
TF_Rejected(p) ==
  /\ run[p].pc = "tf_new"
  /\ EnterFull(p, [run[p] EXCEPT !.api = "disposed"])
  /\ UNCHANGED <<now, limit, sharedBrowser, browsers, disconnected, contexts, closed, storeVars, attempts, fetch>>

\* tryBankIdTokenFlow: a token came back: the QR image is emitted and the
\* collect-login polling starts.
TF_Token(p) ==
  /\ run[p].pc = "tf_new"
  /\ SetRun(p, [Emit(run[p], "qr-image") EXCEPT !.api = "open", !.started = now,
                                                  !.pc = "tf_poll"])
  /\ UNCHANGED <<poolVars, storeVars, attempts, fetch>>

\* tryBankIdTokenFlow: one round of the polling loop within the budget.
\* COMPLETE ends the flow: the context is disposed, ok is returned and
\* runBankIdLogin emits done{ok:true} and returns. Otherwise a status with a
\* hint code is emitted as `collect`, an error is swallowed, and the loop
\* sleeps.
TF_Collect(p) ==
  /\ run[p].pc = "tf_poll"
  /\ now - run[p].started < run[p].tokenTimeoutMs
  /\ \E status \in {"COMPLETE", "OUTSTANDING_TRANSACTION", "error"} :
       LET r == run[p] IN
       CASE status = "COMPLETE" ->
              /\ SetRun(p, [Emit(r, "done_ok") EXCEPT !.final = "ok", !.api = "disposed",
                                                      !.pc = "returned", !.result = "ok"])
              /\ now' = now
         [] status = "OUTSTANDING_TRANSACTION" ->
              /\ SetRun(p, Emit(r, "collect"))
              /\ now' = now + PollStepMs
         [] status = "error" ->
              /\ SetRun(p, r)
              /\ now' = now + PollStepMs
  /\ UNCHANGED <<limit, warmContexts, sharedBrowser, browsers, disconnected, contexts, closed, useOrder,
                 storeVars, attempts, fetch>>

\* tryBankIdTokenFlow: the budget is used up: the context is disposed and
\* {ok:false} is returned; runBankIdLogin falls back to the full flow.
TF_TimedOut(p) ==
  /\ run[p].pc = "tf_poll"
  /\ ~(now - run[p].started < run[p].tokenTimeoutMs)
  /\ EnterFull(p, [run[p] EXCEPT !.api = "disposed"])
  /\ UNCHANGED <<now, limit, sharedBrowser, browsers, disconnected, contexts, closed, storeVars, attempts, fetch>>

\* getSharedBrowser (called by runBankIdLogin) after chromium.launch
\* resolved: the handle is assigned; runBankIdLogin calls getWarmContext.
RB_Launched(p) ==
  /\ run[p].pc = "rb_launch"
  /\ browsers < MaxBrowser
  /\ browsers' = browsers + 1
  /\ sharedBrowser' = browsers + 1
  /\ getWarmContextCall(p, [run[p] EXCEPT !.browser = browsers + 1], browsers + 1)
  /\ UNCHANGED <<now, limit, disconnected, contexts, closed, storeVars, attempts, fetch>>

\* runBankIdLogin's own browser.newContext (no warm context) resolved, on
\* a browser that has not disconnected.
RB_NewContext(p) ==
  /\ run[p].pc = "rb_newctx"
  /\ run[p].browser \notin disconnected
  /\ Len(contexts) < MaxCtx
  /\ contexts' = Append(contexts, NewCtx(run[p].userId, FALSE, run[p].browser, run[p].storageState))
  /\ SetRun(p, [run[p] EXCEPT !.context = NewCtxId, !.pc = "rb_setup"])
  /\ UNCHANGED <<now, limit, warmContexts, sharedBrowser, browsers, disconnected, closed, useOrder,
                 storeVars, attempts, fetch>>

\* An awaited automation step of the full flow threw (chromium.launch,
\* browser.newContext, context.route, context.newPage, page.goto, a page
\* call inside switchToMobiltBankID, clickToShowQR2 or waitForQrHints):
\* control goes to the catch block.
RB_Threw(p) ==
  /\ run[p].pc \in {"rb_launch", "rb_newctx", "rb_setup", "rb_goto", "rb_switch",
                    "rb_click", "rb_hints"}
  /\ Catch(p, run[p])
  /\ UNCHANGED <<now, limit, warmContexts, sharedBrowser, browsers, disconnected, contexts, useOrder,
                 storeVars, attempts, fetch>>

\* The consent seeding, context.route and context.newPage succeeded (on a
\* context that is not closed): the page exists and the first network tap
\* forwards its events to onEvent; page.goto is awaited.
RB_Setup(p) ==
  /\ run[p].pc = "rb_setup"
  /\ run[p].context \notin closed
  /\ SetRun(p, [run[p] EXCEPT !.page = TRUE, !.pc = "rb_goto"])
  /\ UNCHANGED <<poolVars, storeVars, attempts, fetch>>

\* page.goto and closeCookies finished: two marks are logged and
\* switchToMobiltBankID is awaited.
RB_Goto(p) ==
  /\ run[p].pc = "rb_goto"
  /\ run[p].context \notin closed
  /\ SetRun(p, [Emit(Emit(run[p], "log"), "log") EXCEPT !.pc = "rb_switch"])
  /\ UNCHANGED <<poolVars, storeVars, attempts, fetch>>

\* switchToMobiltBankID returned. Not switched: `error` is emitted and an
\* Error is thrown, which the catch block turns into a second `error`.
RB_Switch(p) ==
  /\ run[p].pc = "rb_switch"
  /\ run[p].context \notin closed
  /\ \E switched \in BOOLEAN :
       IF switched
       THEN /\ SetRun(p, [Emit(run[p], "log") EXCEPT !.pc = "rb_click"])
            /\ UNCHANGED closed
       ELSE Catch(p, Emit(run[p], "error"))
  /\ UNCHANGED <<now, limit, warmContexts, sharedBrowser, browsers, disconnected, contexts, useOrder,
                 storeVars, attempts, fetch>>

\* clickToShowQR2 returned. Not clicked: `error` is emitted and the flow
\* goes on; waitForQrHints is awaited either way.
RB_Click(p) ==
  /\ run[p].pc = "rb_click"
  /\ run[p].context \notin closed
  /\ \E clicked \in BOOLEAN :
       SetRun(p, [Emit(run[p], IF clicked THEN "log" ELSE "error") EXCEPT !.pc = "rb_hints"])
  /\ UNCHANGED <<poolVars, storeVars, attempts, fetch>>

\* waitForQrHints returned (a hint is logged) and the close button was
\* hidden: the snapshot interval is set, `started` is taken, the waiter
\* attaches its own network tap and sets its interval; the waiter is awaited.
RB_Hints(p) ==
  /\ run[p].pc = "rb_hints"
  /\ run[p].context \notin closed
  /\ \E hint \in BOOLEAN :
       SetRun(p, [(IF hint THEN Emit(run[p], "log") ELSE run[p]) EXCEPT
                     !.snapshotTimer = TRUE, !.started = now, !.checkTap = TRUE,
                     !.waiterTimer = TRUE, !.pc = "rb_wait"])
  /\ UNCHANGED <<poolVars, storeVars, attempts, fetch>>

\* attachNetworkTaps: the page received a BankID response. The first tap
\* forwards a token as `qr-token`, a status with hint code as `collect` and
\* COMPLETE as done{ok:true}; the waiter's tap (`check`), once attached,
\* sets `final` on COMPLETE and resolves the waiter. The taps stay attached
\* for as long as the page lives.
Tap(p) ==
  /\ run[p].page
  /\ run[p].context \notin closed
  /\ run[p].pc \in {"rb_hints", "rb_wait", "rb_save", "rb_close", "returned"}
  /\ run[p].responses < MaxResponses
  /\ \E kind \in {"qr-token", "collect", "COMPLETE"} :
       LET r == [run[p] EXCEPT !.responses = @ + 1] IN
       IF kind = "COMPLETE"
       THEN SetRun(p, [Emit(r, "done_ok") EXCEPT
                          !.final = IF r.checkTap THEN "ok" ELSE @])
       ELSE SetRun(p, Emit(r, kind))
  /\ UNCHANGED <<poolVars, storeVars, attempts, fetch>>

\* The waiter's interval fires after some time: it clears itself when
\* `final` is set, else it sets the timeout result once the budget is
\* exceeded and resolves the waiter.
WaiterTick(p) ==
  /\ run[p].waiterTimer
  /\ now' = now + WaitStepMs
  /\ LET r == run[p] IN
     IF r.final # "unset" THEN SetRun(p, [r EXCEPT !.waiterTimer = FALSE])
     ELSE IF now' - r.started > r.timeoutMs THEN SetRun(p, [r EXCEPT !.final = "timeout"])
     ELSE SetRun(p, r)
  /\ UNCHANGED <<limit, warmContexts, sharedBrowser, browsers, disconnected, contexts, closed, useOrder,
                 storeVars, attempts, fetch>>

\* The snapshot interval fires: its callback starts and awaits the dialog.
SnapStart(p) ==
  /\ run[p].snapshotTimer
  /\ ~run[p].snapInFlight
  /\ run[p].snaps < MaxSnaps
  /\ SetRun(p, [run[p] EXCEPT !.snapInFlight = TRUE, !.snaps = @ + 1])
  /\ UNCHANGED <<poolVars, storeVars, attempts, fetch>>

\* The snapshot callback finishes: with a visible dialog and a screenshot
\* it emits `qr-image`, otherwise (or when a call threw) nothing.
SnapDone(p) ==
  /\ run[p].snapInFlight
  /\ \E shot \in BOOLEAN :
       LET r == [run[p] EXCEPT !.snapInFlight = FALSE] IN
       SetRun(p, IF shot /\ r.context \notin closed THEN Emit(r, "qr-image") ELSE r)
  /\ UNCHANGED <<poolVars, storeVars, attempts, fetch>>

\* The save block is entered whatever the result.
ShouldSaveAlways(f) == TRUE

\* if (final?.ok): the save block is entered only after COMPLETE.
ShouldSave(f) == f = "ok"

\* Lines 1412-1425 in frame r: an anonymous or visible run closes its
\* context and awaits the close; otherwise the identity's pool entry, if
\* any, is refreshed, `done` is emitted and the result returned.
Release(p, r) ==
  IF r.userId = NoUser \/ r.headless = FALSE
  THEN /\ closed' = closed \cup {r.context}
       /\ SetRun(p, [r EXCEPT !.pc = "rb_close"])
       /\ UNCHANGED <<warmContexts, useOrder>>
  ELSE /\ IF r.userId \in PoolUsers
          THEN /\ warmContexts' = [warmContexts EXCEPT ![PoolIndex(r.userId)].lastUsed = now]
               /\ useOrder' = Touch(useOrder, r.userId, warmContexts)
          ELSE UNCHANGED <<warmContexts, useOrder>>
       /\ SetRun(p, [Emit(r, IF r.final = "ok" THEN "done_ok" ELSE "done_fail") EXCEPT
                        !.pc = "returned",
                        !.result = IF r.final = "ok" THEN "ok" ELSE "fail"])
       /\ UNCHANGED closed

\* The waiter resolved: the snapshot interval is cleared; after COMPLETE
\* the save is logged and started, otherwise the context is released.
RB_Resolved(p) ==
  /\ run[p].pc = "rb_wait"
  /\ run[p].final # "unset"
  /\ LET r == [run[p] EXCEPT !.snapshotTimer = FALSE] IN
     IF ShouldSave(r.final)
     THEN /\ SetRun(p, [Emit(r, "log") EXCEPT !.pc = "rb_save"])
          /\ UNCHANGED <<warmContexts, closed, useOrder>>
     ELSE Release(p, r)
  /\ UNCHANGED <<now, limit, sharedBrowser, browsers, disconnected, contexts, storeVars, attempts, fetch>>

\* The save block: context.storageState() (stateObj), the write of the
\* session file and saveSessionToStore, each of which may fail without
\* stopping the flow (safe); a closed context yields no state. Then the
\* context is released.
RB_Save(p) ==
  /\ run[p].pc = "rb_save"
  /\ \E objOk, fileOk, postOk \in BOOLEAN :
       LET r == [run[p] EXCEPT !.persistCalls = @ + 1]
           live == r.context \notin closed
           state == arts + 1
       IN /\ arts' = arts + 1
          /\ savedBy' = Append(savedBy, r.userId)
          /\ lastSaved' = IF r.userId # NoUser /\ live
                               /\ (fileOk \/ (objOk /\ storeConfigured /\ postOk))
                           THEN [lastSaved EXCEPT ![r.userId] = state]
                           ELSE lastSaved
          /\ sessionFile' = IF fileOk /\ live
                            THEN [sessionFile EXCEPT ![sessionPathFor(r.userId)] = state]
                            ELSE sessionFile
          /\ sessionStore' = IF objOk /\ live
                             THEN saveSessionToStore(r.userId, state, postOk)
                             ELSE sessionStore
          /\ Release(p, r)
  /\ UNCHANGED <<now, limit, sharedBrowser, browsers, disconnected, contexts, storeConfigured, attempts, fetch>>

\* context.close() of an anonymous or visible run resolved: `done` is
\* emitted and the result returned.
RB_Closed(p) ==
  /\ run[p].pc = "rb_close"
  /\ LET r == run[p] IN
     SetRun(p, [Emit(r, IF r.final = "ok" THEN "done_ok" ELSE "done_fail") EXCEPT
                   !.pc = "returned",
                   !.result = IF r.final = "ok" THEN "ok" ELSE "fail"])
  /\ UNCHANGED <<poolVars, storeVars, attempts, fetch>>

\* ------------------------------------------------------------ GET /willys/me
\* The session probe is called for identity u and awaits
\* getStorageStateForUser.
Me_Start(p) ==
  /\ run[p].pc \in {"idle", "returned", "responded"}
  /\ \E u \in Users \cup {NoUser} :
       SetRun(p, [Idle EXCEPT !.task = "me", !.userId = u, !.pc = "me_load"])
  /\ UNCHANGED <<poolVars, storeVars, attempts, fetch>>

\* getStorageStateForUser resolved. Without a storage state and without a
\* session file the probe answers 401; else it creates a request context
\* and awaits the customer request.
Me_Loaded(p) ==
  /\ run[p].pc = "me_load"
  /\ \E fetchOk \in BOOLEAN :
       LET r == run[p]
           path == sessionPathFor(r.userId)
           st == getStorageStateForUser(r.userId, path, fetchOk)
           r2 == [r EXCEPT !.storageState = st,
                           !.stateFromDb = loadSessionFromStore(r.userId, fetchOk)]
       IN IF st = None /\ ~haveSession(path)
          THEN SetRun(p, [r2 EXCEPT !.pc = "responded", !.result = "401", !.sent = @ + 1])
          ELSE SetRun(p, [r2 EXCEPT !.pc = "me_probe"])
  /\ UNCHANGED <<poolVars, storeVars, attempts, fetch>>

\* The customer request answered: the probe sends 200 (with the upstream
\* status in the body) and awaits api.dispose(). Or request.newContext, the
\* request or JSON.parse threw and the catch sends 500, without disposing
\* a context that was already created; a session file that does not parse
\* makes request.newContext throw.
Me_Probe(p) ==
  /\ run[p].pc = "me_probe"
  /\ \E answered, created \in BOOLEAN :
       LET r == run[p]
           usable == ApiSeed(r) \notin {None, EmptyFile, CorruptFile}
       IN IF answered /\ created /\ usable
          THEN SetRun(p, [r EXCEPT !.pc = "me_dispose", !.result = "200", !.sent = @ + 1,
                                   !.api = "open"])
          ELSE SetRun(p, [r EXCEPT !.pc = "responded", !.result = "500", !.sent = @ + 1,
                                   !.api = IF created /\ usable THEN "open" ELSE "none"])
  /\ UNCHANGED <<poolVars, storeVars, attempts, fetch>>

\* api.dispose() resolved, or it rejected: the rejection is caught by the
\* handler's catch, which sends 500 although 200 was sent already.
Me_Disposed(p) ==
  /\ run[p].pc = "me_dispose"
  /\ \E disposed \in BOOLEAN :
       SetRun(p, [run[p] EXCEPT !.pc = "responded",
                                !.api = IF disposed THEN "disposed" ELSE @,
                                !.sent = IF disposed THEN @ ELSE @ + 1])
  /\ UNCHANGED <<poolVars, storeVars, attempts, fetch>>

\* A login attempt of identity u (headless) observed COMPLETE and is about
\* to run its save block: the part of runBankIdLogin before line 1402 is
\* left out of the session store harness.
LoginCompleted(p) ==
  /\ run[p].pc \in {"idle", "returned", "responded"}
  /\ attempts < MaxSaves
  /\ attempts' = attempts + 1
  /\ \E u \in Users :
       SetRun(p, [Idle EXCEPT !.task = "login", !.userId = u, !.final = "ok",
                              !.pc = "rb_save"])
  /\ UNCHANGED <<poolVars, storeVars, fetch>>

\* ------------------------------------------------------- receipt descriptors
\* Math.min(2000, 300 * attempt)
BACKOFF_CAP_MS == 2000
BACKOFF_STEP_MS == 300

\* A field the server's JSON does not carry (undefined, replaced by `??`).
Missing == -1

\* The answers to one req.get: the call rejects ("threw"), or a response
\* with a status (ok), a content type (html: it includes text/html) and a
\* body: JSON text ("json"), text starting with an HTML doctype
\* ("doctype"), or other text that is no JSON ("text"). A JSON body
\* carries paginationData.currentPage (cur) and .numberOfPages (n), each
\* possibly missing.
FailedResponses ==
  { [kind |-> "threw", ok |-> FALSE, html |-> FALSE, body |-> "text",
     cur |-> Missing, n |-> Missing] }
  \cup { [kind |-> "response", ok |-> o, html |-> h, body |-> b, cur |-> Missing, n |-> Missing] :
           o \in BOOLEAN, h \in BOOLEAN, b \in {"json", "doctype", "text"} }
JsonResponses ==
  { [kind |-> "response", ok |-> TRUE, html |-> FALSE, body |-> "json", cur |-> c, n |-> k] :
      c \in {Missing} \cup 0..MaxServerPages, k \in {Missing} \cup 0..MaxServerPages }
Responses == FailedResponses \cup JsonResponses
NoResponse ==
  [kind |-> "none", ok |-> FALSE, html |-> FALSE, body |-> "text", cur |-> Missing, n |-> Missing]

\* The transactions of a page: each leads to a receipt URL (url), carries
\* a store name (name), and has or lacks what a descriptor needs
\* (digitalReceiptAvailable, a reference, a date, a store id, a member card).
Transactions == [url : 1..MaxUrl, name : {"x", "y"}, complete : BOOLEAN]
RECURSIVE SeqsUpTo(_, _)
SeqsUpTo(S, k) ==
  IF k = 0 THEN { <<>> }
  ELSE SeqsUpTo(S, k - 1) \cup { Append(q, x) : q \in SeqsUpTo(S, k - 1), x \in S }
Pages == SeqsUpTo(Transactions, MaxRows)

\* The loop over `results`: a descriptor is pushed for each transaction
\* that is not skipped.
RECURSIVE DescriptorsOf(_)
DescriptorsOf(rows) ==
  IF rows = <<>> THEN <<>>
  ELSE (IF Head(rows).complete
        THEN << [digitalreceipt_url |-> Head(rows).url, store_name |-> Head(rows).name] >>
        ELSE <<>>) \o DescriptorsOf(Tail(rows))

\* getJsonWithRetry's try block with the HTML test left out.
AcceptsWithoutHtmlTest(resp) ==
  resp.kind = "response" /\ resp.ok /\ resp.body = "json"

\* getJsonWithRetry's try block returns for: a response, resp.ok(), a
\* content type without text/html, a body that does not start with an
\* HTML doctype, and JSON.parse does not throw.
Accepts(resp) ==
  /\ resp.kind = "response"
  /\ resp.ok
  /\ ~(resp.html \/ resp.body = "doctype")
  /\ resp.body = "json"

\* The error the try block throws for a response it does not return.
ErrorOf(resp) ==
  IF resp.kind = "threw" THEN "network"
  ELSE IF ~resp.ok THEN "http"
  ELSE IF resp.html \/ resp.body = "doctype" THEN "html"
  ELSE "parse"

\* The backoff without its cap.
BackoffUncapped(attempt) == BACKOFF_STEP_MS * attempt

\* const backoff = Math.min(2000, 300 * attempt)
Backoff(attempt) == Min(BACKOFF_CAP_MS, BACKOFF_STEP_MS * attempt)

\* The filter that keeps every descriptor.
NoDedup(out) == out

\* out.filter with the `seen` set: the first descriptor of each URL stays.
Dedup(out) ==
  LET RECURSIVE Filter(_, _)
      Filter(rest, seen) ==
        IF rest = <<>> THEN <<>>
        ELSE IF Head(rest).digitalreceipt_url \in seen THEN Filter(Tail(rest), seen)
        ELSE <<Head(rest)>> \o Filter(Tail(rest), seen \cup {Head(rest).digitalreceipt_url})
  IN Filter(out, {})

\* The frame of a fetch that was not called.
FetchIdle ==
  [ pc |-> "idle",
    maxPages |-> 0,           \* 0: null (no limit)
    retries |-> 0,
    page |-> 0,
    numberOfPages |-> 1,
    out |-> <<>>,
    api |-> "none",           \* the handler's request context `ctx`
    attempt |-> 0,            \* getJsonWithRetry: `attempt`
    lastErr |-> "none",       \* getJsonWithRetry: `lastErr`
    backoff |-> 0,            \* the sleep in progress
    resp |-> NoResponse,      \* the answer to the latest req.get
    requested |-> <<>>,       \* history: the pages getJsonWithRetry was called for
    tries |-> 0,              \* history: req.get calls of the current getJsonWithRetry
    result |-> <<>>,          \* what fetchReceiptDescriptors returned
    delivered |-> <<>>,       \* the receipts handed to forwardReceiptsToSupabase
    status |-> 0,             \* the HTTP status of the handler's answer
    sent |-> 0,               \* responses the handler sent (calls of res.json)
    descs |-> <<>>,           \* fetchReceiptBodies: `descriptors`
    idx |-> 0,                \* fetchReceiptBodies: position of the for loop
    outcomes |-> <<>>,        \* history: how each download ended
    tried |-> <<>>,           \* history: the descriptors ctx.get was called for
    bodies |-> <<>>,          \* fetchReceiptBodies: `out`
    tz |-> 0,                 \* the process's offset from UTC in seconds
    t |-> <<>>,               \* the listing record `t` of the loop over results
    pushed |-> <<>>,          \* what the loop body pushed for `t`
    text |-> <<>>,            \* the argument of parseReceiptText or normalizeNumber
    parsed |-> <<>>,          \* the value of parseReceiptText(text)
    number |-> 0,             \* the value of normalizeNumber(text)
    lines |-> <<>>,           \* parseItemsFromLines: `lines`
    line |-> 0,               \* parseItemsFromLines: `i`, counted from 1
    items |-> <<>>,           \* parseItemsFromLines: `items`
    pending |-> <<>>,         \* parseItemsFromLines: `pending` (none or one)
    passes |-> <<>> ]         \* history: the loop states before each pass so far

\* fetchReceiptDescriptors returns: the handler disposes its context and
\* awaits forwardReceiptsToSupabase with the descriptors.
FetchReturn(f) ==
  [f EXCEPT !.pc = "done", !.api = "disposed", !.result = Dedup(f.out),
            !.delivered = Dedup(f.out)]

\* The head of the while (true) loop: stop at maxPages, else call
\* getJsonWithRetry for `page`, which issues its first req.get.
LoopHead(f) ==
  IF f.maxPages # 0 /\ f.page >= f.maxPages THEN FetchReturn(f)
  ELSE [f EXCEPT !.pc = "request", !.attempt = 0, !.lastErr = "none", !.tries = 1,
                 !.requested = Append(@, f.page)]

\* A frame is within the bounds of the model.
FetchBounded(f) ==
  /\ Len(f.requested) <= MaxRequests
  /\ f.page <= MaxServerPages + 1

\* POST /willys/fetch-receipts created its request context and reached
\* fetchReceiptDescriptors with maxPages (0: null) and retries.
FetchStart ==
  /\ fetch.pc = "idle"
  /\ \E mp \in 0..MaxMaxPages, rt \in {0, 1, MaxRetries} :
       fetch' = LoopHead([FetchIdle EXCEPT !.maxPages = mp, !.retries = rt, !.api = "open"])
  /\ UNCHANGED <<poolVars, storeVars, attempts, run>>

\* The loop's exit test taken one page late.
IsLastPageOffByOne(serverPage, numberOfPages) == serverPage >= numberOfPages

\* if (serverPage + 1 >= numberOfPages) break;
IsLastPage(serverPage, numberOfPages) == serverPage + 1 >= numberOfPages

\* After a page was returned by getJsonWithRetry: its descriptors are
\* pushed, numberOfPages and serverPage are read, and the loop ends on the
\* last page or goes on with page = serverPage + 1.
PageReceived(f, resp, rows) ==
  LET out2 == f.out \o DescriptorsOf(rows)
      numberOfPages == IF resp.n = Missing THEN 1 ELSE resp.n
      serverPage == IF resp.cur = Missing THEN f.page ELSE resp.cur
      f2 == [f EXCEPT !.out = out2, !.numberOfPages = numberOfPages]
  IN IF IsLastPage(serverPage, numberOfPages) THEN FetchReturn(f2)
     ELSE LoopHead([f2 EXCEPT !.page = serverPage + 1])

\* getJsonWithRetry's catch and loop: lastErr is kept; the call sleeps when
\* attempt < retries and the backoff is not 0; else it goes on with the next
\* attempt or, after the last one, throws lastErr: fetchReceiptDescriptors
\* rejects and the handler's catch answers 500.
AttemptFailed(f, resp) ==
  LET f2 == [f EXCEPT !.lastErr = ErrorOf(resp)]
  IN IF f.attempt < f.retries /\ Backoff(f.attempt) # 0
     THEN [f2 EXCEPT !.pc = "sleep", !.backoff = Backoff(f.attempt)]
     ELSE IF f.attempt + 1 <= f.retries
     THEN [f2 EXCEPT !.attempt = @ + 1, !.tries = @ + 1]
     ELSE [f2 EXCEPT !.attempt = @ + 1, !.pc = "failed", !.status = 500, !.sent = @ + 1]

\* A req.get of getJsonWithRetry is answered.
FetchResponse ==
  /\ fetch.pc = "request"
  /\ \E resp \in Responses, rows \in Pages :
       LET f == [fetch EXCEPT !.resp = resp]
           f2 == IF Accepts(resp) THEN PageReceived(f, resp, rows) ELSE AttemptFailed(f, resp)
       IN /\ Accepts(resp) \/ rows = <<>>
          /\ FetchBounded(f2)
          /\ fetch' = f2
  /\ UNCHANGED <<poolVars, storeVars, attempts, run>>

\* The sleep of getJsonWithRetry is over: the next attempt is issued.
FetchSleepDone ==
  /\ fetch.pc = "sleep"
  /\ fetch' = [fetch EXCEPT !.pc = "request", !.backoff = 0, !.attempt = @ + 1, !.tries = @ + 1]
  /\ UNCHANGED <<poolVars, storeVars, attempts, run>>

\* forwardReceiptsToSupabase resolved (the handler answers 200) or threw
\* (its catch answers 500).
FetchForwarded ==
  /\ fetch.pc = "done"
  /\ \E ok \in BOOLEAN :
       fetch' = [fetch EXCEPT !.pc = "responded", !.status = IF ok THEN 200 ELSE 500,
                              !.sent = @ + 1]
  /\ UNCHANGED <<poolVars, storeVars, attempts, run>>

\* ------------------------------------------------------------ specifications
\* Storage states left by earlier runs of the service: one of a login of
\* PriorUser, and one of an anonymous login (the file at SESSION_PATH).
PriorState == 1
PriorUser == <<"a">>
AnonState == 2

InitShared ==
  /\ now = 0
  /\ limit \in 1..MaxLimit
  /\ warmContexts = <<>>
  /\ sharedBrowser = None
  /\ browsers = 0
  /\ disconnected = {}
  /\ contexts = <<>>
  /\ closed = {}
  /\ useOrder = <<>>
  /\ attempts = 0
  /\ run = [p \in Procs |-> Idle]
  /\ fetch = FetchIdle

\* The pool harness: callers acquire warm contexts; no session of an
\* identity is stored.
InitPool ==
  /\ InitShared
  /\ storeConfigured = FALSE
  /\ sessionStore = [u \in Users |-> None]
  /\ sessionFile = [f \in Paths |-> IF f = SESSION_PATH THEN AnonState ELSE None]
  /\ arts = 2
  /\ lastSaved = [u \in Users |-> None]
  /\ savedBy = <<PriorUser, NoUser>>

NextPool ==
  \/ \E p \in Procs : Acquire(p)
  \/ \E p \in Procs : GW_Launched(p)
  \/ \E p \in Procs : GW_LaunchFailed(p)
  \/ \E p \in Procs : GW_Created(p)
  \/ \E p \in Procs : GW_CreateFailed(p)
  \/ Tick

SpecPool == InitPool /\ [][NextPool]_vars

\* The pool harness with browsers that may disconnect.
NextBrowser ==
  \/ NextPool
  \/ \E b \in 1..MaxBrowser : Disconnect(b)

SpecBrowser == InitPool /\ [][NextBrowser]_vars

\* Concurrent logins: runBankIdLogin is called without a stored session
\* (getStorageStateForUser returns null, so the token-only flow is
\* skipped) and enters the full flow. The callers are two identities and
\* the anonymous caller, headless, with the shorter timeout.
LoginEntersFull(p) ==
  /\ run[p].pc \in {"idle", "returned"}
  /\ attempts < MaxLogins
  /\ attempts' = attempts + 1
  /\ \E u \in {<<"a">>, <<"b", "/">>, NoUser} :
       EnterFull(p, [Idle EXCEPT !.task = "login", !.userId = u, !.timeoutMs = 20000])
  /\ UNCHANGED <<now, limit, sharedBrowser, browsers, disconnected, contexts, closed, storeVars,
                 fetch>>

\* The full flow of up to MaxLogins login attempts in NumProcs concurrent
\* requests, without BankID responses (an attempt ends by an exception or
\* by its timeout), with browsers that may disconnect.
NextLogins ==
  \/ \E p \in Procs : LoginEntersFull(p)
  \/ \E p \in Procs : RB_Launched(p)
  \/ \E p \in Procs : GW_Created(p)
  \/ \E p \in Procs : GW_CreateFailed(p)
  \/ \E p \in Procs : RB_NewContext(p)
  \/ \E p \in Procs : RB_Threw(p)
  \/ \E p \in Procs : RB_Setup(p)
  \/ \E p \in Procs : RB_Goto(p)
  \/ \E p \in Procs : RB_Switch(p)
  \/ \E p \in Procs : RB_Click(p)
  \/ \E p \in Procs : RB_Hints(p)
  \/ \E p \in Procs : WaiterTick(p)
  \/ \E p \in Procs : RB_Resolved(p)
  \/ \E p \in Procs : RB_Closed(p)
  \/ \E b \in 1..MaxBrowser : Disconnect(b)

SpecLogins == InitPool /\ [][NextLogins]_vars

\* The login service: the durable store may be configured, one identity
\* may have a storage state from an earlier run in the store and in its
\* session file, and an anonymous login has left the file at SESSION_PATH.
Init ==
  /\ InitShared
  /\ limit = 1
  /\ storeConfigured \in BOOLEAN
  /\ \E inStore \in BOOLEAN :
       sessionStore = [u \in Users |->
                         IF u = PriorUser /\ inStore /\ storeConfigured THEN PriorState ELSE None]
  /\ \E inFile \in BOOLEAN :
       sessionFile = [f \in Paths |->
                        IF f = sessionPathFor(PriorUser) /\ inFile THEN PriorState
                        ELSE IF f = SESSION_PATH THEN AnonState ELSE None]
  /\ arts = 2
  /\ lastSaved = [u \in Users |-> None]
  /\ savedBy = <<PriorUser, NoUser>>

\* The session store harness: logins that completed save their session
\* and probes load it; the store may be configured and hold a record, the
\* session files may be absent, empty, corrupt or hold a state.
InitStore ==
  /\ InitShared
  /\ limit = 1
  /\ storeConfigured \in BOOLEAN
  /\ \E inStore \in BOOLEAN :
       sessionStore = [u \in Users |->
                         IF u = PriorUser /\ inStore /\ storeConfigured THEN PriorState ELSE None]
  /\ \E c \in {None, EmptyFile, CorruptFile, PriorState} :
       sessionFile = [f \in Paths |-> IF f = sessionPathFor(PriorUser) THEN c ELSE None]
  /\ arts = 2
  /\ lastSaved = [u \in Users |-> None]
  /\ savedBy = <<PriorUser, NoUser>>

NextStore ==
  \/ \E p \in Procs : LoginCompleted(p)
  \/ \E p \in Procs : RB_Save(p)
  \/ \E p \in Procs : Me_Start(p)
  \/ \E p \in Procs : Me_Loaded(p)
  \/ \E p \in Procs : Me_Probe(p)
  \/ \E p \in Procs : Me_Disposed(p)

SpecStore == InitStore /\ [][NextStore]_vars

\* The receipt fetch: one call of fetchReceiptDescriptors by its handler,
\* against a server that may answer anything.
InitFetch == InitPool /\ limit = 1

\* ---- one listing record: the body of the loop over `results` ----

\* Text is a sequence of one-character strings; the empty sequence also
\* stands for null and undefined where the code only tests truthiness.
Digits == <<"0", "1", "2", "3", "4", "5", "6", "7", "8", "9">>
IsDigit(c) == \E i \in 1..10 : Digits[i] = c

\* /^\d{4}-\d{2}-\d{2}$/
isYmd(str) ==
  /\ Len(str) = 10
  /\ \A i \in {1, 2, 3, 4, 6, 7, 9, 10} : IsDigit(str[i])
  /\ str[5] = "-" /\ str[8] = "-"

\* String.prototype.indexOf for one character: 0 when it does not occur.
IndexOf(str, c) ==
  IF \E i \in 1..Len(str) : str[i] = c
  THEN CHOOSE i \in 1..Len(str) : str[i] = c /\ \A j \in 1..(i - 1) : str[j] # c
  ELSE 0

\* reference.includes("T") ? reference.split("T")[0] : null
refPrefixOf(reference) ==
  IF IndexOf(reference, "T") > 0 THEN SubSeq(reference, 1, IndexOf(reference, "T") - 1)
  ELSE <<>>

\* pad2
pad2(n) == << Digits[((n \div 10) % 10) + 1], Digits[(n % 10) + 1] >>

\* The calendar date of a day number counted from 1970-01-01 (the
\* getFullYear, getMonth and getDate of a Date).
CivilFromDays(days) ==
  LET z == days + 719468
      era == z \div 146097
      doe == z - era * 146097
      yoe == (doe - doe \div 1460 + doe \div 36524 - doe \div 146096) \div 365
      doy == doe - (365 * yoe + yoe \div 4 - yoe \div 100)
      mp == (5 * doy + 2) \div 153
      m == IF mp < 10 THEN mp + 3 ELSE mp - 9
  IN [ year |-> yoe + era * 400 + (IF m <= 2 THEN 1 ELSE 0),
       month |-> m,
       day |-> doy - (153 * mp + 2) \div 5 + 1 ]

\* toYmd of the Date with time `secs` (seconds since the epoch) in a
\* process whose local time is tz seconds ahead of UTC; the years that
\* occur have four digits.
toYmd(secs, tz) ==
  LET c == CivilFromDays((secs + tz) \div 86400)
  IN pad2(c.year \div 100) \o pad2(c.year % 100) \o <<"-">> \o pad2(c.month)
       \o <<"-">> \o pad2(c.day)

\* The values of a timestamp field of a record: absent, JSON null, a
\* text that is no date, or a number (a time, here in seconds).
\* The two times are 2024-01-05T12:00:00Z and 2024-02-03T23:30:00Z.
TimestampValues ==
  { [kind |-> k, secs |-> 0] : k \in {"undefined", "null", "text"} }
    \cup { [kind |-> "number", secs |-> n] : n \in {1704456000, 1707003000} }

\* toYmdSafe: new Date(v) is an invalid date for undefined and for a
\* text that is no date, the epoch for null, and the time of a number.
toYmdSafe(v, tz) ==
  IF v.kind \in {"undefined", "text"} THEN <<>>
  ELSE toYmd(IF v.kind = "null" THEN 0 ELSE v.secs, tz)

\* a || b
Or(a, b) == IF a # <<>> THEN a ELSE b
OrNum(a, b) == IF a # 0 THEN a ELSE b

\* Derive datePart.
datePartOf(t, tz) ==
  LET refPrefix == refPrefixOf(t.digitalReceiptReference)
  IN IF refPrefix # <<>> /\ isYmd(refPrefix) THEN refPrefix
     ELSE Or(toYmdSafe(t.bookingDate, tz),
             Or(toYmdSafe(t.orderDate, tz), toYmdSafe(t.creationTime, tz)))

\* storeId and memberCard: the first truthy field, else null (0).
storeIdOf(t) ==
  OrNum(t.storeCustomerId, OrNum(t.storeId, OrNum(t.store.id, t.store.code)))
memberCardOf(t) ==
  OrNum(t.memberCardNumber, OrNum(t.cardNumber, t.memberCard))

\* The body of the loop over `results` for one record: nothing for a
\* skipped record, else the descriptor (its URL as the parts it is
\* built from).
DescribeRecord(t, tz) ==
  IF ~t.digitalReceiptAvailable \/ t.digitalReceiptReference = <<>> THEN <<>>
  ELSE IF datePartOf(t, tz) = <<>> \/ storeIdOf(t) = 0 \/ memberCardOf(t) = 0 THEN <<>>
  ELSE << [ receipt_date |-> datePartOf(t, tz),
            reference |-> t.digitalReceiptReference,
            digitalreceipt_url |->
              [ reference |-> t.digitalReceiptReference, date |-> datePartOf(t, tz),
                storeId |-> storeIdOf(t), source |-> "aws",
                memberCardNumber |-> memberCardOf(t) ] ] >>

\* The listing records the server may send.
References ==
  { <<>>,
    <<"2", "0", "2", "4", "-", "0", "3", "-", "0", "9", "T", "1">>,
    <<"2", "0", "2", "4", "-", "0", "3", "-", "0", "9">>,
    <<"2", "4", "-", "0", "3", "T", "1">>,
    <<"r", "1">> }
Records ==
  [ digitalReceiptAvailable : BOOLEAN,
    digitalReceiptReference : References,
    bookingDate : TimestampValues,
    orderDate : TimestampValues,
    creationTime : TimestampValues,
    storeCustomerId : {0, 7},
    storeId : {0, 8},
    store : { [id |-> 0, code |-> 0], [id |-> 9, code |-> 0], [id |-> 0, code |-> 10] },
    memberCardNumber : {0, 5},
    cardNumber : {0, 6},
    memberCard : {0, 4} ]

\* The loop body runs for one record of a page, in a process on UTC or
\* one hour ahead of it.
RecordSeen ==
  /\ fetch.pc = "idle"
  /\ \E t \in Records, tz \in {0, 3600} :
       fetch' = [FetchIdle EXCEPT !.pc = "described", !.tz = tz, !.t = t,
                                  !.pushed = DescribeRecord(t, tz)]
  /\ UNCHANGED <<poolVars, storeVars, attempts, run>>

\* The loop goes on to the next record.
RecordNext ==
  /\ fetch.pc = "described"
  /\ fetch' = FetchIdle
  /\ UNCHANGED <<poolVars, storeVars, attempts, run>>

NextDescriptor ==
  \/ RecordSeen
  \/ RecordNext

SpecDescriptor == InitFetch /\ [][NextDescriptor]_vars

\* ---- receipt text: parseReceiptText ----

\* Text is a sequence of one-character strings.
LF == "\n"
CR == "\r"
NBSP == "nbsp"
Lowers == << "a", "b", "c", "d", "e", "f", "g", "h", "i", "j", "k", "l", "m",
             "n", "o", "p", "q", "r", "s", "t", "u", "v", "w", "x", "y", "z" >>
Uppers == << "A", "B", "C", "D", "E", "F", "G", "H", "I", "J", "K", "L", "M",
             "N", "O", "P", "Q", "R", "S", "T", "U", "V", "W", "X", "Y", "Z" >>

\* \s, [A-Za-z\u00c0-\u017f] (the one such letter the texts hold is
\* \u00c4, written "u00c4") and \w.
IsSpaceChar(c) == c \in {" ", LF, CR, NBSP}
IsLetter(c) == c = "u00c4" \/ \E i \in 1..26 : c \in {Lowers[i], Uppers[i]}
IsWordChar(c) == IsLetter(c) \/ IsDigit(c) \/ c = "_"

\* The lower-case form of a character (the i flag, toLowerCase).
ToLower(c) ==
  IF \E i \in 1..26 : Uppers[i] = c THEN Lowers[CHOOSE i \in 1..26 : Uppers[i] = c]
  ELSE c
LowerText(str) == [i \in 1..Len(str) |-> ToLower(str[i])]

\* The literal lit occurs in str at position i, letters compared without case.
LitAt(str, i, lit) ==
  /\ i >= 1
  /\ i + Len(lit) - 1 <= Len(str)
  /\ \A k \in 1..Len(lit) : ToLower(str[i + k - 1]) = ToLower(lit[k])

\* The position after the longest run of digits (\d*) or of white space
\* (\s*) that starts at position i.
RECURSIVE DigitsEnd(_, _)
DigitsEnd(str, i) ==
  IF i <= Len(str) /\ IsDigit(str[i]) THEN DigitsEnd(str, i + 1) ELSE i
RECURSIVE SpacesEnd(_, _)
SpacesEnd(str, i) ==
  IF i <= Len(str) /\ IsSpaceChar(str[i]) THEN SpacesEnd(str, i + 1) ELSE i

\* \b at position i: a word character on exactly one side.
WordBoundary(str, i) ==
  (i > 1 /\ i - 1 <= Len(str) /\ IsWordChar(str[i - 1]))
    # (i <= Len(str) /\ IsWordChar(str[i]))

\* The text without the characters before position i.
From(str, i) == SubSeq(str, i, Len(str))

\* str.split(re): the text from position i on, cut at the matches of a
\* pattern; ends[k] is the position after a match that starts at k, or 0
\* when none starts there.
RECURSIVE SplitFrom(_, _, _)
SplitFrom(str, i, ends) ==
  LET cuts == { k \in i..Len(str) : ends[k] > 0 }
      first == CHOOSE k \in cuts : \A n \in cuts : k <= n
  IN IF cuts = {} THEN << From(str, i) >>
     ELSE << SubSeq(str, i, first - 1) >> \o SplitFrom(str, ends[first], ends)

\* /\r?\n/ at position k
LineEndAt(str, k) ==
  IF str[k] = LF THEN k + 1
  ELSE IF str[k] = CR /\ k < Len(str) /\ str[k + 1] = LF THEN k + 2
  ELSE 0
SplitLines(txt) == SplitFrom(txt, 1, [k \in 1..Len(txt) |-> LineEndAt(txt, k)])

\* str.trim()
RECURSIVE TrimEnd(_)
TrimEnd(str) ==
  IF str # <<>> /\ IsSpaceChar(str[Len(str)]) THEN TrimEnd(SubSeq(str, 1, Len(str) - 1))
  ELSE str
Trim(str) == TrimEnd(From(str, SpacesEnd(str, 1)))

\* str.replace(/\s+/g, " "): of every run of white space the first
\* character stays, as a space.
Collapse(str) ==
  LET marked == [k \in 1..Len(str) |->
                   IF ~IsSpaceChar(str[k]) THEN str[k]
                   ELSE IF k > 1 /\ IsSpaceChar(str[k - 1]) THEN "" ELSE " "]
  IN SelectSeq(marked, LAMBDA c : c # "")
CollapseTrim(str) == Trim(Collapse(str))

\* /(?<=\S)\s{2,}(?=\S)/ at position k: a run of two or more white-space
\* characters that stands between two other characters.
WideGapAt(str, k) ==
  IF /\ IsSpaceChar(str[k])
     /\ k > 1 /\ ~IsSpaceChar(str[k - 1])
     /\ SpacesEnd(str, k) - k >= 2
     /\ SpacesEnd(str, k) <= Len(str)
  THEN SpacesEnd(str, k) ELSE 0
SplitWide(txt) == SplitFrom(txt, 1, [k \in 1..Len(txt) |-> WideGapAt(txt, k)])

\* arr.map(f) and arr.filter(Boolean) for the lines of a text.
MapCollapseTrim(ls) == [i \in 1..Len(ls) |-> CollapseTrim(ls[i])]
NonEmpty(ls) == SelectSeq(ls, LAMBDA l : l # <<>>)

\* The drop patterns whose letters the texts can hold: a word at the start
\* of the line followed by \b, a plain prefix, the whole line "klipp", or a
\* rule line.
DropWords ==
  { <<"s","u","m","m","a">>, <<"t","o","t","a","l","t">>, <<"m","o","m","s">>,
    <<"a","t","t"," ","b","e","t","a","l","a">>, <<"d","a","t","u","m">>,
    <<"k","v","i","t","t","o">>, <<"k","a","s","s","a">>, <<"b","u","t","i","k">>,
    <<"b","e","t","a","l","n","i","n","g">>, <<"k","u","n","d">>,
    <<"o","r","g","n","r">>, <<"o","r","g",".","n","r">>,
    <<"m","o","t","t","a","g","e","t">> }
DropPrefixes ==
  { <<"k","u","n","d","s","e","r","v","i","c","e">>,
    <<"w","i","l","l","y","s"," ","p","l","u","s">>,
    <<"b","e","t","a","l","m">>, <<"m","o","m","s","%">>,
    <<"m","e","d"," ","w","i","l","l","y","s"," ","p","l","u","s"," ",
      "h","a","r"," ","d","u"," ","s","p","a","r","a","t",":">> }
IsRule(l) == Len(l) >= 6 /\ \A i \in 1..Len(l) : l[i] \in {"-", "="}
Dropped(l) ==
  \/ \E w \in DropWords : LitAt(l, 1, w) /\ WordBoundary(l, Len(w) + 1)
  \/ \E w \in DropPrefixes : LitAt(l, 1, w)
  \/ LitAt(l, 1, <<"k","l","i","p","p">>) /\ Len(l) = 5
  \/ IsRule(l)

\* The number of matches of /,\d{2}/g (two matches cannot overlap).
CommaPairs(str) ==
  Cardinality({ k \in 1..(Len(str) - 2) :
                  str[k] = "," /\ IsDigit(str[k + 1]) /\ IsDigit(str[k + 2]) })

\* The number of matches of /[A-Za-z\u00c0-\u017f]/g and of /\d/g.
CountLetters(str) == Cardinality({ i \in 1..Len(str) : IsLetter(str[i]) })
CountDigits(str) == Cardinality({ i \in 1..Len(str) : IsDigit(str[i]) })

isMostlyNumbers(str) ==
  /\ CountLetters(str) = 0
  /\ CountDigits(str) >= 4
  /\ CommaPairs(str) >= 2

KeepLines(ls) == SelectSeq(ls, LAMBDA l : ~Dropped(l) /\ ~isMostlyNumbers(l))

\* The kept lines; a text with three kept lines or fewer is cut again, at
\* runs of two or more white-space characters instead of line ends.
parseGroceryLines(txt) ==
  LET kept == KeepLines(NonEmpty(MapCollapseTrim(SplitLines(txt))))
  IN IF Len(kept) <= 3
     THEN KeepLines(NonEmpty(MapCollapseTrim(SplitWide(txt))))
     ELSE kept

\* ---- numbers, in thousandths; NullNum stands for null and undefined ----
NullNum == -999999999

DigitVal(c) == (CHOOSE i \in 1..10 : Digits[i] = c) - 1
RECURSIVE NumOf(_)
NumOf(ds) ==
  IF ds = <<>> THEN 0 ELSE NumOf(SubSeq(ds, 1, Len(ds) - 1)) * 10 + DigitVal(ds[Len(ds)])

\* parseFloat: the longest prefix that is a decimal number (a sign, digits,
\* a point, digits) is converted and the rest of the text is ignored; NaN
\* (here NullNum) when there is no such prefix. No text holds an exponent.
parseFloat(str) ==
  LET signed == str # <<>> /\ str[1] \in {"+", "-"}
      i == IF signed THEN 2 ELSE 1
      a == DigitsEnd(str, i)
      b == IF a <= Len(str) /\ str[a] = "." THEN DigitsEnd(str, a + 1) ELSE a
      whole == SubSeq(str, i, a - 1)
      frac == SubSeq(str, a + 1, b - 1)
      v == NumOf(whole) * 1000 + NumOf(SubSeq(frac \o <<"0", "0", "0">>, 1, 3))
  IN IF whole = <<>> /\ frac = <<>> THEN NullNum
     ELSE IF signed /\ str[1] = "-" THEN 0 - v ELSE v

\* str.replace(",", "."): the first comma only.
ReplaceFirstComma(str) ==
  IF IndexOf(str, ",") = 0 THEN str ELSE [str EXCEPT ![IndexOf(str, ",")] = "."]

\* The value null where a text is expected.
NullText == << "null" >>

\* normalizeNumber: null for null; else white space is taken out, the
\* first comma becomes a point and parseFloat converts; NaN gives null.
normalizeNumber(str) ==
  IF str = NullText THEN NullNum
  ELSE parseFloat(ReplaceFirstComma(SelectSeq(str, LAMBDA c : ~IsSpaceChar(c))))

\* \d+,\d{2} at position i: the position after the match, or 0.
MoneyAt(str, i) ==
  LET a == DigitsEnd(str, i)
  IN IF /\ a > i /\ a + 2 <= Len(str) /\ str[a] = ","
        /\ IsDigit(str[a + 1]) /\ IsDigit(str[a + 2])
     THEN a + 3 ELSE 0

\* The elements of a pattern: \d+, \s*, \s+, \d+,\d{2}, and an
\* alternation of literals, tried in the given order.
ReDigits == [kind |-> "\\d+", alts |-> <<>>]
ReSpaces == [kind |-> "\\s*", alts |-> <<>>]
ReGap == [kind |-> "\\s+", alts |-> <<>>]
ReMoney == [kind |-> "\\d+,\\d{2}", alts |-> <<>>]
ReLit(alts) == [kind |-> "literal", alts |-> alts]

\* The position after the element el matched at position p, or 0 when it
\* does not match there.
ElementEnd(str, p, el) ==
  IF el = ReDigits THEN (IF DigitsEnd(str, p) > p THEN DigitsEnd(str, p) ELSE 0)
  ELSE IF el = ReSpaces THEN SpacesEnd(str, p)
  ELSE IF el = ReGap THEN (IF SpacesEnd(str, p) > p THEN SpacesEnd(str, p) ELSE 0)
  ELSE IF el = ReMoney THEN MoneyAt(str, p)
  ELSE LET hits == SelectSeq(el.alts, LAMBDA l : LitAt(str, p, l))
       IN IF hits = <<>> THEN 0 ELSE p + Len(Head(hits))

\* The elements of pat matched one after the other from position p: the
\* position after each element, or nothing when one does not match. No
\* element of the patterns can take a character the next one needs, so
\* the longest match of each is the only one to try.
RECURSIVE MatchEnds(_, _, _)
MatchEnds(str, p, pat) ==
  LET Then(q) ==
        IF q = 0 THEN <<>>
        ELSE IF Len(pat) = 1 THEN <<q>>
        ELSE LET Rest(ends) == IF ends = <<>> THEN <<>> ELSE <<q>> \o ends
             IN Rest(MatchEnds(str, q, Tail(pat)))
  IN Then(ElementEnd(str, p, Head(pat)))

\* The leftmost match, as none or one record; found[i] is the match at
\* position i.
FirstMatch(found) ==
  LET hits == { i \in DOMAIN found : found[i] # <<>> }
  IN IF hits = {} THEN <<>> ELSE found[CHOOSE i \in hits : \A k \in hits : i <= k]

\* /(\d+,\d+)\s*(kg|g|l|cl|ml)\s*\*\s*(\d+,\d{2})\s*kr\/(kg|l)\s+(\d+,\d{2})/i
\* matched at position i: none or one record of the groups.
WeightAt(str, i) ==
  LET pat == << ReDigits, ReLit(<< <<",">> >>), ReDigits, ReSpaces,
                ReLit(<< <<"k","g">>, <<"g">>, <<"l">>, <<"c","l">>, <<"m","l">> >>),
                ReSpaces, ReLit(<< <<"*">> >>), ReSpaces, ReMoney, ReSpaces,
                ReLit(<< <<"k","r","/">> >>), ReLit(<< <<"k","g">>, <<"l">> >>),
                ReGap, ReMoney >>
      Groups(ends) ==
        IF ends = <<>> THEN <<>>
        ELSE << [ qty |-> normalizeNumber(SubSeq(str, i, ends[3] - 1)),
                  unit |-> LowerText(SubSeq(str, ends[4], ends[5] - 1)),
                  unitPrice |-> normalizeNumber(SubSeq(str, ends[8], ends[9] - 1)),
                  unitPriceUnit |-> LowerText(SubSeq(str, ends[11], ends[12] - 1)),
                  total |-> normalizeNumber(SubSeq(str, ends[13], ends[14] - 1)) ] >>
  IN Groups(MatchEnds(str, i, pat))

parseWeightLine(line) == FirstMatch([i \in 1..Len(line) |-> WeightAt(line, i)])

\* /(\d+)\s*st\*\s*(\d+,\d{2})\s+(\d+,\d{2})/i matched at position i; the
\* count (parseInt) is kept in thousandths like every quantity.
MultiBuyAt(str, i) ==
  LET pat == << ReDigits, ReSpaces, ReLit(<< <<"s","t","*">> >>), ReSpaces, ReMoney,
                ReGap, ReMoney >>
      Groups(ends) ==
        IF ends = <<>> THEN <<>>
        ELSE << [ count |-> NumOf(SubSeq(str, i, ends[1] - 1)) * 1000,
                  unitPrice |-> normalizeNumber(SubSeq(str, ends[4], ends[5] - 1)),
                  total |-> normalizeNumber(SubSeq(str, ends[6], ends[7] - 1)),
                  start |-> i ] >>
  IN Groups(MatchEnds(str, i, pat))

parseMultiBuy(line) == FirstMatch([i \in 1..Len(line) |-> MultiBuyAt(line, i)])

\* The position after the ,\d{2} that no digit follows (the end of a match
\* of ...,\d{2}(?!.*\d)), or 0.
LastDecimalsEnd(str) ==
  LET ends == { e \in 4..(Len(str) + 1) :
                  /\ str[e - 3] = "," /\ IsDigit(str[e - 2]) /\ IsDigit(str[e - 1])
                  /\ \A k \in e..Len(str) : ~IsDigit(str[k]) }
  IN IF ends = {} THEN 0 ELSE CHOOSE e \in ends : TRUE

\* \d{1,3}(?:[ \u00A0]\d{3})* matches the whole of str.
IsGrouped(str) ==
  \E k \in 1..3 :
    /\ k <= Len(str)
    /\ (Len(str) - k) % 4 = 0
    /\ \A n \in 1..Len(str) :
         IF n > k /\ (n - k) % 4 = 1 THEN str[n] \in {" ", NBSP} ELSE IsDigit(str[n])
IsDigits(str) == str # <<>> /\ \A n \in 1..Len(str) : IsDigit(str[n])

\* /(\d{1,3}(?:[ \u00A0]\d{3})*,\d{2}|\d+,\d{2})(?!.*\d)/: the span of the
\* leftmost match, as none or one record.
LastMoneyMatch(line) ==
  LET e == LastDecimalsEnd(line)
      starts == { i \in 1..(e - 4) :
                    IsGrouped(SubSeq(line, i, e - 4)) \/ IsDigits(SubSeq(line, i, e - 4)) }
  IN IF e = 0 \/ starts = {} THEN <<>>
     ELSE << [ start |-> CHOOSE i \in starts : \A k \in starts : i <= k, end |-> e ] >>

lastMoney(line) ==
  LET hit == LastMoneyMatch(line)
  IN IF hit = <<>> THEN NullNum
     ELSE normalizeNumber(SubSeq(line, hit[1].start, hit[1].end - 1))

\* /^\d+\s*\*\s*Rab:/i or /^\s*(Rabatt:|Rab:|W\s*Plus:)/i
isDiscountLine(line) ==
  LET a == DigitsEnd(line, 1)
      b == SpacesEnd(line, a)
      s == SpacesEnd(line, 1)
  IN \/ /\ a > 1
        /\ b <= Len(line) /\ line[b] = "*"
        /\ LitAt(line, SpacesEnd(line, b + 1), <<"r","a","b",":">>)
     \/ LitAt(line, s, <<"r","a","b","a","t","t",":">>)
     \/ LitAt(line, s, <<"r","a","b",":">>)
     \/ /\ LitAt(line, s, <<"w">>)
        /\ LitAt(line, SpacesEnd(line, s + 1), <<"p","l","u","s",":">>)

\* The value as it is written on the line, without -Math.abs(...).
discountValueAsWritten(line) ==
  LET e == LastDecimalsEnd(line)
      starts == { i \in 1..(e - 4) : IsDigits(SubSeq(line, i, e - 4)) }
      d == CHOOSE i \in starts : \A k \in starts : i <= k
      m == IF d > 1 /\ line[d - 1] = "-" THEN d - 1 ELSE d
  IN IF e = 0 \/ starts = {} THEN NullNum
     ELSE normalizeNumber(SubSeq(line, m, e - 1))

\* /-?\d+,\d{2}(?!.*\d)/ and -Math.abs(...)
discountValue(line) ==
  LET e == LastDecimalsEnd(line)
      starts == { i \in 1..(e - 4) : IsDigits(SubSeq(line, i, e - 4)) }
      d == CHOOSE i \in starts : \A k \in starts : i <= k
      m == IF d > 1 /\ line[d - 1] = "-" THEN d - 1 ELSE d
      n == normalizeNumber(SubSeq(line, m, e - 1))
  IN IF e = 0 \/ starts = {} THEN NullNum
     ELSE IF n < 0 THEN n ELSE 0 - n

\* The name given to an item without one ("OK\u00c4\u00b4NT").
UnknownName == <<"O", "K", "u00c4", "u00b4", "N", "T">>

\* The patterns cleanName removes, matched at position i (none or one
\* record with the span of the match): /\b(W\s*Plus:.*)$/i, /\bMAX\d+\b/i,
\* /\bKLIPP\b/i and /\bRab(?:att)?:.*$/i. /\bUTG\u00c5.R\b/i matches no
\* text without that letter.
RemovedAt(str, i, re) ==
  IF ~WordBoundary(str, i) THEN <<>>
  ELSE IF re = "W Plus:"
  THEN IF /\ LitAt(str, i, <<"w">>)
          /\ LitAt(str, SpacesEnd(str, i + 1), <<"p","l","u","s",":">>)
       THEN << [start |-> i, end |-> Len(str) + 1] >> ELSE <<>>
  ELSE IF re = "MAX"
  THEN IF /\ LitAt(str, i, <<"m","a","x">>)
          /\ DigitsEnd(str, i + 3) > i + 3
          /\ WordBoundary(str, DigitsEnd(str, i + 3))
       THEN << [start |-> i, end |-> DigitsEnd(str, i + 3)] >> ELSE <<>>
  ELSE IF re = "KLIPP"
  THEN IF LitAt(str, i, <<"k","l","i","p","p">>) /\ WordBoundary(str, i + 5)
       THEN << [start |-> i, end |-> i + 5] >> ELSE <<>>
  ELSE IF LitAt(str, i, <<"r","a","b",":">>) \/ LitAt(str, i, <<"r","a","b","a","t","t",":">>)
       THEN << [start |-> i, end |-> Len(str) + 1] >> ELSE <<>>

\* str.replace(re, ""): the leftmost match is taken out.
RemoveFirst(str, re) ==
  LET Without(hit) ==
        IF hit = <<>> THEN str
        ELSE SubSeq(str, 1, hit[1].start - 1) \o From(str, hit[1].end)
  IN Without(FirstMatch([i \in 1..Len(str) |-> RemovedAt(str, i, re)]))

cleanName(name) ==
  CollapseTrim(RemoveFirst(RemoveFirst(RemoveFirst(RemoveFirst(name, "W Plus:"), "MAX"),
                                       "KLIPP"), "Rab:"))

\* ---- parseItemsFromLines ----

\* x ?? 0
Nz(x) == IF x = NullNum THEN 0 ELSE x

\* Math.round(v * 100) / 100 for v in thousandths.
Round2(v) == ((v + 5) \div 10) * 10

\* An item; a field the code leaves undefined is NullNum or empty.
NewItem(name, qty, unit, unitPrice, unitPriceUnit, price, discount, total, raw) ==
  [ name |-> name, qty |-> qty, unit |-> unit, unitPrice |-> unitPrice,
    unitPriceUnit |-> unitPriceUnit, price |-> price, discount |-> discount,
    total |-> total, raw |-> raw ]

\* commitPending: the items after the pending item, if any, was pushed.
commitPending(items, pending) ==
  IF pending = <<>> THEN items
  ELSE Append(items, [pending[1] EXCEPT
                        !.total = Round2(Nz(pending[1].price) + Nz(pending[1].discount))])

\* The lines the loop skips; the other alternatives of the pattern hold
\* letters the texts cannot hold.
IsFooter(line) ==
  \/ LitAt(line, 1, <<"S","P","A","R","A"," ","K","V","I","T","T","O","T">>)
  \/ LitAt(line, 1, <<"K","a","s","s","a",":">>)

\* The pending item made from a name and the weight line that follows.
PendingOf(name, w, raw) ==
  << NewItem(name, w.qty, w.unit, w.unitPrice, w.unitPriceUnit, w.total, 0, NullNum, raw) >>

\* The state of the loop over the lines: the line to read next, the
\* items pushed and the pending item (none or one).
LoopState(i, items, pending) == [i |-> i, items |-> items, pending |-> pending]

\* The body of the loop for line i, given what the parsers make of it
\* (w, mb, price) and of the line after it (nextW): the state of the loop
\* after this pass.
ItemStep(lines, i, items, pending, w, mb, price, nextW) ==
  LET raw == lines[i]
      St == <<"s", "t">>
      NameOr(name) == IF name # <<>> THEN name ELSE UnknownName
      val == discountValue(raw)
      committed == commitPending(items, pending)
      m == LastMoneyMatch(raw)[1]
      noPrice == Trim(SubSeq(raw, 1, m.start - 1) \o From(raw, m.end))
      pricedName == NameOr(cleanName(CollapseTrim(noPrice)))
      mbName == NameOr(cleanName(Trim(SubSeq(raw, 1, mb[1].start - 1))))
      both == raw \o <<LF>> \o lines[i + 1]
  IN
  IF IsFooter(raw) THEN LoopState(i + 1, items, pending)
  ELSE IF isDiscountLine(raw) THEN
    IF val = NullNum THEN LoopState(i + 1, items, pending)
    ELSE IF pending # <<>>
    THEN LoopState(i + 1, items,
                  << [pending[1] EXCEPT !.discount = Nz(@) + val] >>)
    ELSE IF items # <<>>
    THEN LoopState(i + 1,
                  [items EXCEPT ![Len(items)].discount = Nz(@) + val], pending)
    ELSE LoopState(i + 1,
                  << NewItem(<<"R","A","B","A","T","T">>, 1000, St, NullNum, <<>>,
                             0, val, val, raw) >>, pending)
  ELSE IF w # <<>> /\ pending # <<>>
  THEN LoopState(i + 1, items,
                << [pending[1] EXCEPT !.qty = w[1].qty, !.unit = w[1].unit,
                                      !.unitPrice = w[1].unitPrice,
                                      !.unitPriceUnit = w[1].unitPriceUnit,
                                      !.price = w[1].total] >>)
  ELSE IF w # <<>>
  THEN LoopState(i + 1, items, PendingOf(UnknownName, w[1], raw))
  ELSE IF mb # <<>>
  THEN LoopState(i + 1,
                Append(committed, NewItem(mbName, mb[1].count, St, mb[1].unitPrice, St,
                                          mb[1].total, 0, mb[1].total, raw)),
                <<>>)
  ELSE IF price # NullNum THEN
    IF nextW # <<>>
    THEN LoopState(i + 2, committed, PendingOf(pricedName, nextW[1], both))
    ELSE LoopState(i + 1,
                  Append(committed, NewItem(pricedName, 1000, St, NullNum, <<>>,
                                            price, 0, price, raw)),
                  <<>>)
  ELSE IF raw # <<>> /\ (IsLetter(raw[1]) \/ IsDigit(raw[1])) /\ nextW # <<>>
  THEN LoopState(i + 2, committed, PendingOf(cleanName(raw), nextW[1], both))
  ELSE LoopState(i + 1, committed, <<>>)

\* One pass of the loop.
ItemPass(lines, i, items, pending) ==
  ItemStep(lines, i, items, pending,
           parseWeightLine(lines[i]), parseMultiBuy(lines[i]), lastMoney(lines[i]),
           IF i + 1 <= Len(lines) THEN parseWeightLine(lines[i + 1]) ELSE <<>>)

\* The loop from line i on; after the last line commitPending.
RECURSIVE ItemLoop(_, _, _, _)
ItemLoop(lines, i, items, pending) ==
  LET Go(st) == ItemLoop(lines, st.i, st.items, st.pending)
  IN IF i > Len(lines) THEN commitPending(items, pending)
     ELSE Go(ItemPass(lines, i, items, pending))

\* The loop after the lines with nothing done: totals keep the value they
\* were given when the item was pushed.
ReconcileNothing(items) == items

\* for (const it of items) it.total = Math.round((base + disc) * 100) / 100
Reconcile(items) ==
  [ k \in 1..Len(items) |->
      [items[k] EXCEPT !.total = Round2(Nz(items[k].price) + Nz(items[k].discount))] ]

\* The final filter: items without a name, the savings line, and names
\* without letters and with two digits or more are left out.
KeepItem(it) ==
  /\ it.name # <<>>
  /\ ~LitAt(it.name, 1, <<"M","e","d"," ","W","i","l","l","y","s"," ","P","l","u","s"," ",
                          "h","a","r"," ","d","u"," ","s","p","a","r","a","t">>)
  /\ ~(CountLetters(it.name) = 0 /\ CountDigits(it.name) >= 2)

parseItemsFromLines(lines) ==
  SelectSeq(Reconcile(ItemLoop(lines, 1, <<>>, <<>>)), KeepItem)

RECURSIVE SumTotals(_)
SumTotals(items) ==
  IF items = <<>> THEN 0 ELSE Nz(Head(items).total) + SumTotals(Tail(items))

\* parseReceiptText
parseReceiptText(rawText) ==
  LET Result(lineCount, items) ==
        [ items |-> items, lineCount |-> lineCount, itemCount |-> Len(items),
          total |-> Round2(SumTotals(items)) ]
  IN IF rawText = <<>>
     THEN [items |-> <<>>, lineCount |-> 0, itemCount |-> 0, total |-> NullNum]
     ELSE Result(Len(parseGroceryLines(rawText)),
                 parseItemsFromLines(parseGroceryLines(rawText)))

\* ---- the texts handed to parseReceiptText and normalizeNumber ----
BananLine ==
  <<"E", "k", "o", "l", "o", "g", "i", "s", "k", " ", "B", "a", "n", "a", "n">>
WeightLine ==
  <<"0", ",", "5", "0", "5", " ", "k", "g", " ", "*", " ", "3", "9", ",", "9", "0", " ", "k", "r", "/", "k", "g", " ", "2", "0", ",", "1", "5">>
PricedLine ==
  <<"X", " ", "2", "5", ",", "0", "0">>
RabLine ==
  <<"R", "a", "b", ":", " ", "-", "5", ",", "0", "0">>
MultiBuyLine ==
  <<"O", "s", "t", " ", "2", "s", "t", "*", "1", "0", ",", "0", "0", " ", "2", "0", ",", "0", "0">>
SummaLine ==
  <<"S", "u", "m", "m", "a", " ", "4", "5", ",", "1", "5">>
ReceiptLines == {BananLine, WeightLine, PricedLine, RabLine, MultiBuyLine, SummaLine}

\* How the lines of a receipt text are set apart: line feed, carriage
\* return and line feed, or two spaces (text taken from a PDF).
Separators == { <<LF>>, <<CR, LF>>, <<" ", " ">> }

RECURSIVE Join(_, _)
Join(ls, sep) ==
  IF ls = <<>> THEN <<>>
  ELSE IF Len(ls) = 1 THEN ls[1]
  ELSE ls[1] \o sep \o Join(Tail(ls), sep)

\* The inputs of normalizeNumber: null, and a start followed by an end.
NumberInputs ==
  LET heads == { <<>>, <<"1", "2", ",", "5", "0">>,
                 <<"1", " ", "2", "3", "4", ",", "5", "6">>,
                 <<"1", NBSP, "2", "3", "4", ",", "5", "6">>,
                 <<"1", ",", "2", "3", "4", ",", "5", "6">>, <<"7">> }
      tails == { <<>>, <<"k", "r">>, <<" ", "k", "r">>, <<"a", "b", "c">> }
  IN { NullText } \cup { h \o t : h \in heads, t \in tails }

\* parseReceiptText is called with a text.
ParseSeen ==
  /\ fetch.pc = "idle"
  /\ \E ls \in SeqsUpTo(ReceiptLines, MaxLines), sep \in Separators :
       LET text == Join(ls, sep)
       IN fetch' = [FetchIdle EXCEPT !.pc = "parsed", !.text = text,
                                     !.parsed = parseReceiptText(text)]
  /\ UNCHANGED <<poolVars, storeVars, attempts, run>>

\* normalizeNumber is called with a value.
NumberSeen ==
  /\ fetch.pc = "idle"
  /\ \E str \in NumberInputs :
       fetch' = [FetchIdle EXCEPT !.pc = "normalized", !.text = str,
                                  !.number = normalizeNumber(str)]
  /\ UNCHANGED <<poolVars, storeVars, attempts, run>>

\* The caller has its result; the next call may follow.
ParseDone ==
  /\ fetch.pc \in {"parsed", "normalized"}
  /\ fetch' = FetchIdle
  /\ UNCHANGED <<poolVars, storeVars, attempts, run>>

NextParse ==
  \/ ParseSeen
  \/ NumberSeen
  \/ ParseDone

SpecParse == InitFetch /\ [][NextParse]_vars

\* ---- parseItemsFromLines, one pass of the loop at a time ----

\* The candidate lines handed to parseItemsFromLines.
WeightLine2 ==
  <<"1", ",", "0", "0", "0", " ", "k", "g", " ", "*", " ", "1", "0", ",", "0", "0", " ", "k", "r", "/", "k", "g", " ", "1", "0", ",", "0", "0">>
RabattLine ==
  <<"R", "a", "b", "a", "t", "t", ":", " ", "3", ",", "0", "0">>
ItemLines ==
  {BananLine, WeightLine, WeightLine2, PricedLine, RabLine, RabattLine, MultiBuyLine}

\* parseItemsFromLines is called: items = [], pending = null, i = 0.
ItemsStart ==
  /\ fetch.pc = "idle"
  /\ \E ls \in SeqsUpTo(ItemLines, MaxLines) :
       fetch' = [FetchIdle EXCEPT !.pc = "items", !.lines = ls, !.line = 1]
  /\ UNCHANGED <<poolVars, storeVars, attempts, run>>

\* One pass of the loop over the lines.
ItemsLine ==
  /\ fetch.pc = "items"
  /\ fetch.line <= Len(fetch.lines)
  /\ LET st == ItemPass(fetch.lines, fetch.line, fetch.items, fetch.pending)
     IN fetch' = [fetch EXCEPT !.line = st.i, !.items = st.items, !.pending = st.pending,
                               !.passes = Append(@, LoopState(fetch.line, fetch.items,
                                                              fetch.pending))]
  /\ UNCHANGED <<poolVars, storeVars, attempts, run>>

\* After the loop: commitPending, the totals are set again, the items
\* are filtered and returned.
ItemsEnd ==
  /\ fetch.pc = "items"
  /\ fetch.line > Len(fetch.lines)
  /\ fetch' = [fetch EXCEPT !.pc = "itemized", !.pending = <<>>,
                            !.items = SelectSeq(Reconcile(commitPending(fetch.items,
                                                                        fetch.pending)),
                                                KeepItem)]
  /\ UNCHANGED <<poolVars, storeVars, attempts, run>>

\* The caller has the items; the next call may follow.
ItemsDone ==
  /\ fetch.pc = "itemized"
  /\ fetch' = FetchIdle
  /\ UNCHANGED <<poolVars, storeVars, attempts, run>>

NextItems ==
  \/ ItemsStart
  \/ ItemsLine
  \/ ItemsEnd
  \/ ItemsDone

SpecItems == InitFetch /\ [][NextItems]_vars

\* The descriptors handed to fetchReceiptBodies.
BodyDescriptors == [digitalreceipt_url : 1..MaxUrl, store_name : {"x", "y"}]

\* How one pass of the loop body ends: the response is read (with a 2xx
\* status or with an error status, which the code does not test), or
\* ctx.get or resp.body() rejects.
DownloadOutcomes == {"ok", "error_status", "get_threw", "body_threw"}
DownloadThrew(o) == o \in {"get_threw", "body_threw"}

\* The entry pushed for descriptor d: the descriptor with the content type
\* and the body of the response.
BodyEntry(d, o) ==
  [ desc |-> d,
    content_type |-> IF o = "ok" THEN "application/pdf" ELSE "text/html",
    content |-> IF o = "ok" THEN d.digitalreceipt_url ELSE 0 ]

\* The loop with a catch that leaves the loop.
AfterDownloadAborting(f, o) ==
  LET f2 == [f EXCEPT !.outcomes = Append(@, o),
                      !.bodies = IF DownloadThrew(o) THEN @
                                 ELSE Append(@, BodyEntry(f.descs[f.idx], o))]
  IN IF f.idx = Len(f.descs) \/ DownloadThrew(o) THEN [f2 EXCEPT !.pc = "fb_dispose"]
     ELSE [f2 EXCEPT !.idx = @ + 1, !.tried = Append(@, f.descs[f.idx + 1])]

\* One pass of the loop body of fetchReceiptBodies with outcome o: the
\* entry is pushed or the catch logs the failure; then the next
\* descriptor is requested, or the loop ends and ctx.dispose() is called.
AfterDownload(f, o) ==
  LET f2 == [f EXCEPT !.outcomes = Append(@, o),
                      !.bodies = IF DownloadThrew(o) THEN @
                                 ELSE Append(@, BodyEntry(f.descs[f.idx], o))]
  IN IF f.idx = Len(f.descs) THEN [f2 EXCEPT !.pc = "fb_dispose"]
     ELSE [f2 EXCEPT !.idx = @ + 1, !.tried = Append(@, f.descs[f.idx + 1])]

\* fetchReceiptBodies is called with a list of descriptors and awaits
\* request.newContext.
FB_Start ==
  /\ fetch.pc = "idle"
  /\ \E ds \in SeqsUpTo(BodyDescriptors, MaxDescs) :
       fetch' = [FetchIdle EXCEPT !.pc = "fb_ctx", !.descs = ds]
  /\ UNCHANGED <<poolVars, storeVars, attempts, run>>

\* request.newContext resolved and the loop requests the first
\* descriptor (or ends at once), or it rejected and the call throws.
FB_Context ==
  /\ fetch.pc = "fb_ctx"
  /\ \E created \in BOOLEAN :
       fetch' = IF ~created THEN [fetch EXCEPT !.pc = "fb_threw"]
                ELSE IF fetch.descs = <<>> THEN [fetch EXCEPT !.pc = "fb_dispose"]
                ELSE [fetch EXCEPT !.pc = "fb_get", !.idx = 1,
                                   !.tried = <<fetch.descs[1]>>]
  /\ UNCHANGED <<poolVars, storeVars, attempts, run>>

\* The download of the current descriptor ended.
FB_Download ==
  /\ fetch.pc = "fb_get"
  /\ \E o \in DownloadOutcomes : fetch' = AfterDownload(fetch, o)
  /\ UNCHANGED <<poolVars, storeVars, attempts, run>>

\* ctx.dispose() resolved and `out` is returned, or it rejected and the
\* call throws.
FB_Disposed ==
  /\ fetch.pc = "fb_dispose"
  /\ \E disposed \in BOOLEAN :
       fetch' = [fetch EXCEPT !.pc = IF disposed THEN "fb_returned" ELSE "fb_threw"]
  /\ UNCHANGED <<poolVars, storeVars, attempts, run>>

NextBodies ==
  \/ FB_Start
  \/ FB_Context
  \/ FB_Download
  \/ FB_Disposed

SpecBodies == InitFetch /\ [][NextBodies]_vars

NextFetch ==
  \/ FetchStart
  \/ FetchResponse
  \/ FetchSleepDone
  \/ FetchForwarded

SpecFetch == InitFetch /\ [][NextFetch]_vars

Next ==
  \/ \E p \in Procs : Start(p)
  \/ \E p \in Procs : RB_Load(p)
  \/ \E p \in Procs : TF_Threw(p)
  \/ \E p \in Procs : TF_Rejected(p)
  \/ \E p \in Procs : TF_Token(p)
  \/ \E p \in Procs : TF_Collect(p)
  \/ \E p \in Procs : TF_TimedOut(p)
  \/ \E p \in Procs : RB_Launched(p)
  \/ \E p \in Procs : GW_Created(p)
  \/ \E p \in Procs : GW_CreateFailed(p)
  \/ \E p \in Procs : RB_NewContext(p)
  \/ \E p \in Procs : RB_Threw(p)
  \/ \E p \in Procs : RB_Setup(p)
  \/ \E p \in Procs : RB_Goto(p)
  \/ \E p \in Procs : RB_Switch(p)
  \/ \E p \in Procs : RB_Click(p)
  \/ \E p \in Procs : RB_Hints(p)
  \/ \E p \in Procs : Tap(p)
  \/ \E p \in Procs : WaiterTick(p)
  \/ \E p \in Procs : SnapStart(p)
  \/ \E p \in Procs : SnapDone(p)
  \/ \E p \in Procs : RB_Resolved(p)
  \/ \E p \in Procs : RB_Save(p)
  \/ \E p \in Procs : RB_Closed(p)

Spec == Init /\ [][Next]_vars

\* ------------------------------------------------------------------ claims
Terminal(e) == e \in {"done_ok", "done_fail", "error"}
TerminalCount(ev) == Cardinality({ i \in DOMAIN ev : Terminal(ev[i]) })
Logins == { p \in Procs : run[p].task = "login" }
TokenPcs == {"tf_new", "tf_poll"}
FullEntryPcs == {"rb_launch", "gw_newctx", "rb_newctx", "rb_setup"}

\* C1: the events a login attempt passes to onEvent hold exactly one
\* terminal event (done or error): never two, and one once it has returned.
C1_ExactlyOneTerminalEvent ==
  \A p \in Logins :
    /\ TerminalCount(run[p].events) <= 1
    /\ run[p].pc = "returned" => TerminalCount(run[p].events) = 1

\* C2: the event stream ends with its terminal event: no event of any type
\* follows a done or error event.
C2_NoEventAfterTerminal ==
  \A p \in Logins :
    \A i \in DOMAIN run[p].events :
      Terminal(run[p].events[i]) => i = Len(run[p].events)

\* C3: an attempt whose polling observed COMPLETE (final is ok when it
\* returns) ends with done{ok:true} and has persisted the session exactly
\* once, on the token-only path as on the full path.
C3_CompletePersistsOnce ==
  [][ \A p \in Procs :
        (run[p].pc # "returned" /\ run'[p].pc = "returned" /\ run'[p].final = "ok")
          => /\ run'[p].result = "ok"
             /\ \E i \in DOMAIN run'[p].events : run'[p].events[i] = "done_ok"
             /\ run'[p].persistCalls = 1
    ]_vars

\* C4: the session file and the durable record are written only by a step
\* of the save block of an attempt that reached COMPLETE, and an attempt
\* that ended in failure has never run its save block.
C4_SavedOnlyAfterComplete ==
  /\ [][ (sessionFile' # sessionFile \/ sessionStore' # sessionStore)
           => \E p \in Logins :
                /\ run[p].final = "ok"
                /\ run'[p].persistCalls = run[p].persistCalls + 1
       ]_vars
  /\ [](\A p \in Logins : run[p].result = "fail" => run[p].persistCalls = 0)

\* C4 witness: a timed-out attempt of the identity with a stored session
\* has returned, and the file and the record still hold the earlier state.
C4_Witness ==
  \E p \in Logins :
    /\ run[p].pc = "returned" /\ run[p].result = "fail" /\ run[p].final = "timeout"
    /\ run[p].userId = PriorUser
    /\ sessionFile[sessionPathFor(PriorUser)] = PriorState
    /\ sessionStore[PriorUser] = PriorState

\* C5: the token-only flow is tried exactly when a storage state was
\* loaded, before any step of the full flow, with the budget
\* min(timeoutMs, 60000) <= timeoutMs; when it does not return ok the full
\* flow is entered, and when it returns ok the attempt returns at once.
C5_TokenFlowFirst ==
  /\ [](\A p \in Logins :
          run[p].pc # "rb_load" =>
            /\ run[p].tokenTried <=> run[p].storageState # None
            /\ run[p].tokenTried =>
                 /\ run[p].tokenTimeoutMs =
                      (IF run[p].timeoutMs < 60000 THEN run[p].timeoutMs ELSE 60000)
                 /\ run[p].tokenTimeoutMs <= run[p].timeoutMs
            /\ run[p].pc \in TokenPcs =>
                 /\ run[p].browser = None /\ run[p].context = None /\ ~run[p].page
                 /\ \A i \in DOMAIN run[p].events : run[p].events[i] # "log")
  /\ [][ \A p \in Procs :
           (run[p].pc \in TokenPcs /\ run'[p].pc \notin TokenPcs) =>
             IF run'[p].final = "ok"
             THEN /\ run'[p].pc = "returned" /\ run'[p].result = "ok"
                  /\ run'[p].context = None /\ ~run'[p].page
             ELSE /\ run'[p].pc \in FullEntryPcs
                  /\ run'[p].events = Append(run[p].events, "log")
       ]_vars

\* C5 witness: the token-only flow saw one pending status and then
\* COMPLETE, and the attempt returned without a browser context.
C5_Witness ==
  \E p \in Logins :
    /\ run[p].pc = "returned" /\ run[p].result = "ok"
    /\ run[p].events = <<"qr-image", "collect", "done_ok">>
    /\ run[p].context = None

\* C6: an attempt that ended in failure (timed out or failed) has released
\* its automation resources when it returns: its context is closed (and
\* with it the page), its request context is not left open and its timers
\* are cleared.
C6_FailureReleasesResources ==
  \A p \in Logins :
    (run[p].pc = "returned" /\ run[p].result = "fail") =>
      /\ run[p].context # None => run[p].context \in closed
      /\ run[p].api # "open"
      /\ ~run[p].snapshotTimer /\ ~run[p].waiterTimer

\* C7: once an attempt has emitted `error` it takes no further automation
\* step: it has returned, with a failure result.
C7_ErrorEndsAttempt ==
  \A p \in Logins :
    (\E i \in DOMAIN run[p].events : run[p].events[i] = "error") =>
      run[p].pc = "returned" /\ run[p].result = "fail"

\* The contexts that were created for the pool and not closed.
LiveWarm(u) ==
  { c \in DOMAIN contexts : contexts[c].warm /\ contexts[c].user = u /\ c \notin closed }

\* C8: after every completed getWarmContext call the pool holds at most
\* WILLYS_WARM_CONTEXT_LIMIT entries, and every entry that left the pool had
\* close() invoked on its context.
C8_PoolBounded ==
  [][ /\ Len(warmContexts') <= limit'
      /\ \A i \in DOMAIN warmContexts :
           warmContexts[i].uid \notin PoolUsers' => warmContexts[i].context \in closed'
    ]_vars

\* C8 witness: a full pool after an eviction closed a context.
C8_Witness ==
  /\ closed # {}
  /\ Len(warmContexts) = limit
  /\ \A c \in closed : \A i \in DOMAIN warmContexts : warmContexts[i].context # c

\* C9: eviction is least-recently-used: when a created context pushes the
\* pool over its limit, the identity that leaves the pool is the one used
\* least recently and the created entry stays.
C9_EvictsLeastRecentlyUsed ==
  [][ \A p \in Procs :
        (GW_Created(p) /\ Len(warmContexts) = limit /\ run[p].userId \notin PoolUsers)
          => /\ run[p].userId \in PoolUsers'
             /\ PoolUsers \ PoolUsers' = { Head(useOrder) }
    ]_vars

\* C10: at any time an identity has at most one live warm context.
C10_OneLiveContextPerIdentity ==
  \A u \in Users : Cardinality(LiveWarm(u)) <= 1

\* C11, first part: a warm context handed to a caller belongs to the
\* caller's identity, and only identified headless callers get one.
C11_ReturnedToOwner ==
  /\ \A p \in Procs, u \in Users \cup {NoUser}, h \in BOOLEAN :
       (AcquireAs(p, u, h) /\ run'[p].context # None)
         => /\ contexts[run'[p].context].user = u
            /\ u # NoUser /\ h
  /\ \A p \in Procs :
       (run[p].pc # "idle" /\ run'[p].context # run[p].context /\ run'[p].context # None
          /\ contexts'[run'[p].context].warm)
         => /\ contexts'[run'[p].context].user = run[p].userId
            /\ run[p].userId # NoUser /\ run[p].headless

\* C11, second part: a step of an anonymous or headless=false request
\* leaves the pool as it is (no entry read, refreshed or added).
C11_ExcludedLeavePool ==
  /\ \A p \in Procs, u \in Users \cup {NoUser}, h \in BOOLEAN :
       (AcquireAs(p, u, h) /\ (u = NoUser \/ ~h))
         => warmContexts' = warmContexts /\ run'[p].context = None
  /\ \A p \in Procs :
       (run[p].pc # "idle" /\ run'[p] # run[p]
          /\ (run[p].userId = NoUser \/ ~run[p].headless))
         => warmContexts' = warmContexts

\* C11, third part: a context that the pool tracks and then no longer
\* tracks had close() invoked on it.
C11_ClosedBeforeUntracked ==
  \A i \in DOMAIN warmContexts :
    (\A j \in DOMAIN warmContexts' : warmContexts'[j].context # warmContexts[i].context)
      => warmContexts[i].context \in closed'

\* C11: a warm context is owned by one identity: it is returned only to
\* requests of that identity, anonymous and headless=false requests never
\* read or add pool entries, and a context is closed before the pool stops
\* tracking it.
C11_ExclusiveOwnership ==
  [][ C11_ReturnedToOwner /\ C11_ExcludedLeavePool /\ C11_ClosedBeforeUntracked ]_vars

\* The file fallback: the parsed session file if it exists, is not empty
\* and parses, else null.
C12_FileFallback(path) ==
  IF sessionFile[path] \in {None, EmptyFile, CorruptFile} THEN None ELSE sessionFile[path]

\* C12: getStorageStateForUser returns the durable store's state whenever
\* the store returned one, whatever the file holds; otherwise the parsed
\* session file if it exists, is not empty and parses; otherwise null. It
\* always returns (the probe goes on to answer 401 or to its request).
C12_StoreThenFile ==
  [][ \A p \in Procs :
        (run[p].pc = "me_load" /\ run'[p] # run[p]) =>
          /\ run'[p].pc \in {"responded", "me_probe"}
          /\ run'[p].storageState =
               (IF run'[p].stateFromDb # None THEN run'[p].stateFromDb
                ELSE C12_FileFallback(sessionPathFor(run[p].userId)))
          /\ run'[p].stateFromDb # None =>
               /\ run[p].userId # NoUser /\ storeConfigured
               /\ run'[p].stateFromDb = sessionStore[run[p].userId]
    ]_vars

\* C12 witness: one probe got the store's state although the session file
\* holds a different state, another one got the file's state because the
\* store did not answer although it holds a record.
C12_Witness ==
  \E p, q \in Procs :
    /\ run[p].pc = "me_probe" /\ run[q].pc = "me_probe"
    /\ run[p].userId = PriorUser /\ run[q].userId = PriorUser
    /\ sessionStore[PriorUser] # None
    /\ sessionFile[sessionPathFor(PriorUser)] \notin {None, EmptyFile, CorruptFile}
    /\ sessionFile[sessionPathFor(PriorUser)] # sessionStore[PriorUser]
    /\ run[p].stateFromDb = sessionStore[PriorUser]
    /\ run[p].storageState = sessionStore[PriorUser]
    /\ run[q].stateFromDb = None
    /\ run[q].storageState = sessionFile[sessionPathFor(PriorUser)]

\* C13: last write wins per identity: once a login of identity X has
\* persisted a state, a load for X that completes afterwards returns the
\* state X persisted last, whether or not the durable store answered
\* during the save and during the load. (Stated for the loads that find
\* X's last state in X's session file: the file write of the save worked
\* and no other write replaced it.)
C13_LastWriteWins ==
  [][ \A p \in Procs :
        (run[p].pc = "me_load" /\ run'[p] # run[p] /\ run[p].userId # NoUser
           /\ lastSaved[run[p].userId] # None
           /\ sessionFile[sessionPathFor(run[p].userId)] = lastSaved[run[p].userId])
          => run'[p].storageState = lastSaved[run[p].userId]
    ]_vars

\* A step in which the fetch receives the answer to a req.get.
FetchAnswered == fetch.pc = "request" /\ fetch' # fetch

\* C14: the pages fetchReceiptDescriptors requests are strictly increasing
\* (no page is requested twice), whatever the server answers; descriptors
\* are appended as the pages are received, so in the order of the requests.
C14_PagesStrictlyIncreasing ==
  \A i, j \in DOMAIN fetch.requested :
    i < j => fetch.requested[i] < fetch.requested[j]

\* The server reported the last page: currentPage + 1 >= numberOfPages,
\* where a missing currentPage is the requested page and a missing
\* numberOfPages is 1 (no pagination data: a single page).
C15_ReportsLastPage(resp, page) ==
  (IF resp.cur = Missing THEN page ELSE resp.cur) + 1
    >= (IF resp.n = Missing THEN 1 ELSE resp.n)

\* A good JSON answer: status ok, not HTML, a body that parses.
GoodJson(resp) ==
  resp.kind = "response" /\ resp.ok /\ ~resp.html /\ resp.body = "json"

\* C15: pagination stops exactly at the last page: after a page whose
\* answer reports currentPage + 1 >= numberOfPages no request is issued,
\* and without maxPages a page that does not report it is followed by the
\* next request.
C15_StopsAtLastPage ==
  [][ /\ (FetchAnswered /\ GoodJson(fetch'.resp)) =>
           IF C15_ReportsLastPage(fetch'.resp, fetch.page)
           THEN fetch'.pc = "done" /\ fetch'.requested = fetch.requested
           ELSE fetch.maxPages = 0 =>
                  /\ fetch'.pc = "request"
                  /\ Len(fetch'.requested) = Len(fetch.requested) + 1
      /\ fetch.pc \in {"done", "responded", "failed"} => fetch'.requested = fetch.requested
    ]_vars

\* C15 witness: a fetch without maxPages requested pages 0 and 1 and
\* stopped on the answer "page 2 of 2".
C15_Witness ==
  /\ fetch.pc = "done" /\ fetch.maxPages = 0
  /\ fetch.requested = <<0, 1>>
  /\ fetch.resp.cur = 1 /\ fetch.resp.n = 2
  /\ Len(fetch.out) = 2

\* C16: with a positive maxPages a fetch issues at most maxPages page
\* requests, whatever the server answers.
C16_AtMostMaxPagesRequests ==
  fetch.maxPages > 0 => Len(fetch.requested) <= fetch.maxPages

\* C17: getJsonWithRetry makes at most retries + 1 attempts; a good answer
\* ends the call at once; after failed attempt k (counted from 0) it waits
\* min(2000, 300 * k) ms, at most 2 s and never after the last attempt; when
\* every attempt failed it throws the last error and the handler answers
\* with a failure.
C17_RetriesWithBackoff ==
  /\ [](fetch.tries <= fetch.retries + 1)
  /\ [][ FetchAnswered =>
           LET k == fetch.tries - 1
               wait == IF 300 * k < 2000 THEN 300 * k ELSE 2000
           IN IF GoodJson(fetch'.resp)
              THEN \/ fetch'.pc = "done"
                   \/ /\ fetch'.pc = "request" /\ fetch'.tries = 1
                      /\ Len(fetch'.requested) = Len(fetch.requested) + 1
              ELSE /\ fetch'.requested = fetch.requested
                   /\ fetch'.lastErr = ErrorOf(fetch'.resp)
                   /\ IF fetch.tries = fetch.retries + 1
                      THEN fetch'.pc = "failed" /\ fetch'.status = 500
                      ELSE IF wait = 0
                      THEN fetch'.pc = "request" /\ fetch'.tries = fetch.tries + 1
                      ELSE /\ fetch'.pc = "sleep" /\ fetch'.backoff = wait
                           /\ fetch'.backoff <= 2000
                           /\ fetch'.tries = fetch.tries
       ]_vars
  /\ [][ fetch.pc = "sleep" =>
           fetch'.pc = "request" /\ fetch'.tries = fetch.tries + 1
             /\ fetch'.requested = fetch.requested
       ]_vars

\* C17 witness: the eighth attempt failed and the call sleeps for the
\* capped 2 seconds.
C17_Witness ==
  fetch.pc = "sleep" /\ fetch.tries = 8 /\ fetch.backoff = 2000

\* An answer that is HTML or has a non-success status.
C18_HtmlOrError(resp) ==
  resp.kind = "response" /\ (~resp.ok \/ resp.html \/ resp.body = "doctype")

\* C18: an answer that is HTML (content type text/html or a body starting
\* with an HTML doctype) or has a non-success status is never returned as a
\* page: it is a failed attempt, it is retried, and when it persists the
\* fetch fails without a result.
C18_HtmlNeverAccepted ==
  [][ (FetchAnswered /\ C18_HtmlOrError(fetch'.resp)) =>
        /\ fetch'.out = fetch.out
        /\ fetch'.requested = fetch.requested
        /\ fetch'.lastErr \in {"http", "html"}
        /\ IF fetch.tries < fetch.retries + 1
           THEN \/ fetch'.pc = "request" /\ fetch'.tries = fetch.tries + 1
                \/ fetch'.pc = "sleep"
           ELSE /\ fetch'.pc = "failed" /\ fetch'.status = 500
                /\ fetch'.result = <<>> /\ fetch'.delivered = <<>>
    ]_vars

\* C18 witness: a fetch failed after one retry on an answer with status
\* ok, content type text/html and a body that parses as JSON.
C18_Witness ==
  /\ fetch.pc = "failed" /\ fetch.retries = 1 /\ fetch.tries = 2
  /\ fetch.resp.kind = "response" /\ fetch.resp.ok /\ fetch.resp.html
  /\ fetch.resp.body = "json"
  /\ fetch.lastErr = "html"

\* The index of the first descriptor of `out` with the URL u.
C19_First(out, u) ==
  CHOOSE i \in DOMAIN out :
    /\ out[i].digitalreceipt_url = u
    /\ \A j \in DOMAIN out : out[j].digitalreceipt_url = u => i <= j

\* C19: the returned list holds no two descriptors with the same
\* digitalreceipt_url; for each URL collected it holds the first descriptor
\* collected, in the order of collection.
C19_NoDuplicateUrls ==
  fetch.pc \in {"done", "responded"} =>
    LET out == fetch.out
        res == fetch.result
    IN /\ \A i, j \in DOMAIN res :
            res[i].digitalreceipt_url = res[j].digitalreceipt_url => i = j
       /\ { res[i].digitalreceipt_url : i \in DOMAIN res }
            = { out[i].digitalreceipt_url : i \in DOMAIN out }
       /\ \A i \in DOMAIN res : res[i] = out[C19_First(out, res[i].digitalreceipt_url)]
       /\ \A i, j \in DOMAIN res :
            i < j => C19_First(out, res[i].digitalreceipt_url)
                       < C19_First(out, res[j].digitalreceipt_url)

\* C19 witness: three descriptors were collected, the third with the URL
\* of the first and another store name; the first and the second are
\* returned.
C19_Witness ==
  /\ fetch.pc = "done"
  /\ Len(fetch.out) = 3
  /\ fetch.out[1].digitalreceipt_url = fetch.out[3].digitalreceipt_url
  /\ fetch.out[1].store_name # fetch.out[3].store_name
  /\ fetch.out[2].digitalreceipt_url # fetch.out[1].digitalreceipt_url
  /\ fetch.result = <<fetch.out[1], fetch.out[2]>>

\* C20: when the fetch of a page fails after its retries, the descriptors
\* collected from the pages before it are still delivered to the caller.
C20_PartialResultsDelivered ==
  fetch.pc = "failed" =>
    \A i \in DOMAIN fetch.out :
      \E j \in DOMAIN fetch.delivered :
        fetch.delivered[j].digitalreceipt_url = fetch.out[i].digitalreceipt_url

\* C26: every inbound operation sends exactly one response (the success
\* or one structured failure): a handler never sends a second one, also
\* when a call after the response (api.dispose) throws, and has sent one
\* when it is finished.
C26_ExactlyOneResponse ==
  /\ \A p \in Procs :
       run[p].task = "me" =>
         /\ run[p].sent <= 1
         /\ run[p].pc = "responded" => run[p].sent = 1
  /\ fetch.sent <= 1
  /\ fetch.pc \in {"responded", "failed"} => fetch.sent = 1

\* The browser processes that are running.
LiveBrowsers == (1..browsers) \ disconnected

\* C27: the shared browser is a lazily started singleton: at most one
\* launched browser is running at a time, the disconnect of the current
\* browser clears the handle, and the disconnect of an older browser
\* leaves the handle of a newer one in place.
C27_SharedBrowserSingleton ==
  [][ /\ Cardinality(LiveBrowsers') <= 1
      /\ \A b \in LiveBrowsers :
           b \notin LiveBrowsers' =>
             IF b = sharedBrowser THEN sharedBrowser' = None
             ELSE sharedBrowser' = sharedBrowser ]_vars

\* The login and fetch flows that have started and not finished.
FlowsInFlight ==
  Cardinality({ p \in Logins : run[p].pc \notin {"idle", "returned"} })
    + (IF fetch.pc \in {"idle", "responded", "failed", "fb_returned", "fb_threw", "described", "parsed", "normalized", "items", "itemized"} THEN 0 ELSE 1)

\* C28: the login and fetch flows in flight at the same time are bounded
\* by a fixed K, here the capacity of the warm context pool: a flow that
\* arrives while K flows are running is not started.
C28_BoundedFlowsInFlight ==
  FlowsInFlight <= limit

\* The entries of the descriptors ds whose downloads, with outcomes os,
\* did not throw, in the order of ds.
RECURSIVE Downloaded(_, _)
Downloaded(ds, os) ==
  IF ds = <<>> \/ os = <<>> THEN <<>>
  ELSE (IF DownloadThrew(Head(os)) THEN <<>> ELSE << BodyEntry(Head(ds), Head(os)) >>)
         \o Downloaded(Tail(ds), Tail(os))

HoldsDate(v) == v.kind = "number"
HasDatePrefix(reference) == isYmd(refPrefixOf(reference))

\* C29: a descriptor is emitted for a record if and only if
\* digitalReceiptAvailable is truthy, a reference is present and the
\* derived date, store identifier and card identifier are all non-null;
\* in particular a record whose reference has no date-shaped prefix and
\* none of whose fallback timestamp fields holds a valid date is skipped.
C29_EmittedIffComplete ==
  fetch.pc = "described" =>
    LET t == fetch.t
    IN /\ fetch.pushed # <<>> <=>
            /\ t.digitalReceiptAvailable
            /\ t.digitalReceiptReference # <<>>
            /\ datePartOf(t, fetch.tz) # <<>>
            /\ storeIdOf(t) # 0
            /\ memberCardOf(t) # 0
       /\ ( /\ ~HasDatePrefix(t.digitalReceiptReference)
            /\ ~HoldsDate(t.bookingDate) /\ ~HoldsDate(t.orderDate) /\ ~HoldsDate(t.creationTime) )
            => fetch.pushed = <<>>

\* The first of the three fallback fields that holds a valid date.
FirstDateField(t) ==
  IF HoldsDate(t.bookingDate) THEN t.bookingDate
  ELSE IF HoldsDate(t.orderDate) THEN t.orderDate
  ELSE t.creationTime

\* C30: the date of a descriptor is the YYYY-MM-DD text before the T of
\* the reference when the reference has one; otherwise it is the date of
\* the first of bookingDate, orderDate, creationTime that holds a valid
\* date, an absent or null field being passed over.
C30_DateByPriority ==
  (fetch.pc = "described" /\ fetch.pushed # <<>>) =>
    LET t == fetch.t
        date == fetch.pushed[1].receipt_date
    IN IF HasDatePrefix(t.digitalReceiptReference)
       THEN date = SubSeq(t.digitalReceiptReference, 1, 10)
       ELSE /\ HoldsDate(FirstDateField(t))
            /\ date = toYmd(FirstDateField(t).secs, fetch.tz)

\* C22: every item parseReceiptText returns has total = round(price +
\* discount, 2) and discount <= 0, whatever the lines were and however
\* many discount lines were applied to the item.
C22_TotalIsPricePlusDiscount ==
  fetch.pc = "parsed" =>
    \A k \in 1..Len(fetch.parsed.items) :
      LET item == fetch.parsed.items[k]
      IN /\ item.discount <= 0
         /\ item.total = Round2(item.price + item.discount)

\* Two discount lines were applied to an item that was already pushed.
C22_Witness ==
  /\ fetch.pc = "parsed"
  /\ \E k \in 1..Len(fetch.parsed.items) :
       LET item == fetch.parsed.items[k]
       IN item.price = 25000 /\ item.discount = -10000 /\ item.total = 15000

\* A text of two lines, the second on the line after the first.
TwoLineText(first, second) ==
  { Join(<<first, second>>, <<LF>>), Join(<<first, second>>, <<CR, LF>>) }

\* C23: the name line "Ekologisk Banan" followed on the next line by the
\* weight line "0,505 kg * 39,90 kr/kg 20,15" gives exactly one item named
\* "Ekologisk Banan" with qty 0.505, unit kg, unitPrice 39.90 and total
\* 20.15.
C23_NameThenWeightLine ==
  (fetch.pc = "parsed" /\ fetch.text \in TwoLineText(BananLine, WeightLine)) =>
    /\ Len(fetch.parsed.items) = 1
    /\ fetch.parsed.items[1].name = BananLine
    /\ fetch.parsed.items[1].qty = 505
    /\ fetch.parsed.items[1].unit = <<"k", "g">>
    /\ fetch.parsed.items[1].unitPrice = 39900
    /\ fetch.parsed.items[1].total = 20150

\* C24: a priced line with amount 25,00 followed on the next line by the
\* discount line "Rab: -5,00" gives one item with price 25.00, discount
\* -5.00 and total 20.00.
C24_PricedThenDiscount ==
  (fetch.pc = "parsed" /\ fetch.text \in TwoLineText(PricedLine, RabLine)) =>
    /\ Len(fetch.parsed.items) = 1
    /\ fetch.parsed.items[1].price = 25000
    /\ fetch.parsed.items[1].discount = -5000
    /\ fetch.parsed.items[1].total = 20000

\* A text that is entirely a number in the comma-decimal money format:
\* digits, or groups of three after a space or non-breaking space, and
\* optionally a comma and decimals; and the value of such a text.
IsMoneyText(str) ==
  /\ str # NullText
  /\ LET c == IndexOf(str, ",")
         whole == IF c = 0 THEN str ELSE SubSeq(str, 1, c - 1)
     IN /\ IsGrouped(whole) \/ IsDigits(whole)
        /\ c # 0 => IsDigits(From(str, c + 1))
MoneyValue(str) ==
  LET c == IndexOf(str, ",")
      whole == IF c = 0 THEN str ELSE SubSeq(str, 1, c - 1)
      frac == IF c = 0 THEN <<>> ELSE From(str, c + 1)
  IN NumOf(SelectSeq(whole, IsDigit)) * 1000 + NumOf(SubSeq(frac \o <<"0", "0", "0">>, 1, 3))

\* C25: normalizeNumber gives a money text its value and gives null for
\* every input that is not entirely a number (null, empty, letters, digits
\* followed by other characters): never zero, never the value of a part.
C25_NumberOrNull ==
  fetch.pc = "normalized" =>
    fetch.number = IF IsMoneyText(fetch.text) THEN MoneyValue(fetch.text) ELSE NullNum

\* C31: in parseItemsFromLines a discount line whose value v can be read
\* (v <= 0) is added to the pending item if there is one; else to the item
\* pushed last if there is one; else it makes an item of its own with
\* price 0 and total v. It never pushes the pending item and never
\* changes another item.
DiscountPass ==
  /\ fetch.pc = "items"
  /\ fetch.line <= Len(fetch.lines)
  /\ isDiscountLine(fetch.lines[fetch.line])
  /\ discountValue(fetch.lines[fetch.line]) # NullNum
C31_DiscountGoesToOpenItem ==
  [][ DiscountPass =>
        LET v == discountValue(fetch.lines[fetch.line])
            items == fetch.items
            after == fetch'.items
        IN /\ v <= 0
           /\ fetch'.line = fetch.line + 1
           /\ IF fetch.pending # <<>>
              THEN /\ after = items
                   /\ fetch'.pending =
                        << [fetch.pending[1] EXCEPT !.discount = Nz(@) + v] >>
              ELSE IF items # <<>>
              THEN /\ fetch'.pending = <<>>
                   /\ Len(after) = Len(items)
                   /\ \A k \in 1..(Len(items) - 1) : after[k] = items[k]
                   /\ after[Len(items)] =
                        [items[Len(items)] EXCEPT !.discount = Nz(@) + v]
              ELSE /\ fetch'.pending = <<>>
                   /\ Len(after) = 1
                   /\ after[1].price = 0 /\ after[1].discount = v /\ after[1].total = v
    ]_vars
\* A discount is read with an item pending, with items pushed and none
\* pending, and with no item at all.
C31_Witness ==
  /\ fetch.pc = "itemized"
  /\ \E a, b, c \in 1..Len(fetch.passes) :
       LET Disc(k) == /\ isDiscountLine(fetch.lines[fetch.passes[k].i])
                      /\ discountValue(fetch.lines[fetch.passes[k].i]) < 0
       IN /\ Disc(a) /\ fetch.passes[a].pending # <<>>
          /\ Disc(b) /\ fetch.passes[b].pending = <<>> /\ fetch.passes[b].items # <<>>
          /\ Disc(c) /\ fetch.passes[c].pending = <<>> /\ fetch.passes[c].items = <<>>

\* C32: no warm context has close() invoked on it by another request
\* (the eviction in its getWarmContext, or its catch block) while a login
\* attempt that holds the context has not yet emitted its terminal event.
InUseBy(p, c) ==
  /\ run[p].task = "login"
  /\ run[p].pc \notin {"idle", "returned"}
  /\ run[p].context = c
  /\ TerminalCount(run[p].events) = 0
C32_NoCloseWhileInUse ==
  [][ \A p \in Procs :
        (run'[p] = run[p] /\ run[p].context # None /\ InUseBy(p, run[p].context))
          => (run[p].context \in closed' => run[p].context \in closed) ]_vars

\* C33: the context getWarmContext returns is live: close() was not
\* invoked on it and its browser has not disconnected.
ReturnedWarm(p) ==
  /\ run'[p].context # run[p].context
  /\ run'[p].context # None
  /\ contexts'[run'[p].context].warm
C33_PoolContextsLive ==
  [][ \A p \in Procs :
        ReturnedWarm(p) =>
          /\ run'[p].context \notin closed'
          /\ contexts'[run'[p].context].browser \notin disconnected' ]_vars

\* C34: persistence precedes the success signal: whenever the events passed
\* to the stream consumer of a login attempt hold done{ok:true}, the save
\* block of that attempt has already run.
C34_PersistedBeforeDone ==
  \A p \in Logins :
    (\E i \in DOMAIN run[p].events : run[p].events[i] = "done_ok")
      => run[p].persistCalls >= 1

\* s is no storage state (none, or a file that holds none), or it is the
\* artifact of a login of identity y.
OwnedBy(s, y) == s \in DOMAIN savedBy => savedBy[s] = y

\* C35: session artifacts are isolated per identity: every browser context
\* (warm or not) created for an identity, and every API request context
\* opened for it, is seeded with no artifact or with one that a login of
\* that identity persisted, never with the artifact of another identity or
\* of the anonymous session.
C35_SeedsOfOwnIdentity ==
  /\ \A c \in DOMAIN contexts :
       contexts[c].user # NoUser => OwnedBy(contexts[c].seed, contexts[c].user)
  /\ \A p \in Procs :
       (run[p].userId # NoUser
          /\ (run[p].api # "none" \/ run[p].pc \in {"me_probe", "me_dispose"}))
         => OwnedBy(ApiSeed(run[p]), run[p].userId)

\* The variables of fetchReceiptDescriptors at the head of its loop.
FetchLoopState(f) == <<f.page, f.out, f.numberOfPages, f.maxPages, f.retries>>

\* C36: fetchReceiptDescriptors terminates for every sequence of server
\* responses, with or without maxPages. A loop that ends under every
\* sequence of answers never comes back to the head of the loop with the
\* variables it had at the previous head (else the server, repeating its
\* answer, keeps it running for ever): every answered page that is followed
\* by another request has changed the page or the collected descriptors.
C36_LoopStateNeverRecurs ==
  [][ (FetchAnswered /\ fetch'.pc = "request"
         /\ Len(fetch'.requested) > Len(fetch.requested))
        => FetchLoopState(fetch') # FetchLoopState(fetch) ]_vars

\* C37: every API request context created for an operation is disposed
\* before the operation ends, on success and on failure: the context of a
\* fetch endpoint once the endpoint has answered, the context of
\* tryBankIdTokenFlow once it has returned, and the context of the session
\* probe once the probe has answered.
C37_RequestContextsDisposed ==
  /\ fetch.pc \in {"failed", "responded"} => fetch.api # "open"
  /\ \A p \in Procs :
       /\ (run[p].task = "login" /\ run[p].tokenTried /\ run[p].pc \notin TokenPcs)
            => run[p].api # "open"
       /\ (run[p].task = "me" /\ run[p].pc = "responded") => run[p].api # "open"

\* The lines of a text are set apart by single line breaks: it holds a
\* line break, and two white-space characters follow each other only as
\* carriage return and line feed.
SingleLineBreaks(txt) ==
  /\ \E k \in 1..Len(txt) : LineEndAt(txt, k) > 0
  /\ \A k \in 1..(Len(txt) - 1) :
       (IsSpaceChar(txt[k]) /\ IsSpaceChar(txt[k + 1])) => (txt[k] = CR /\ txt[k + 1] = LF)

\* C38: the resegmentation fallback of parseGroceryLines never joins two
\* source lines: for a text whose lines are set apart by single line breaks
\* and which has at most 3 candidate lines after filtering, the candidate
\* lines returned are the filtered lines of the split at line breaks.
C38_FallbackKeepsLines ==
  (fetch.pc = "parsed" /\ SingleLineBreaks(fetch.text)
     /\ Len(KeepLines(NonEmpty(MapCollapseTrim(SplitLines(fetch.text))))) <= 3)
    => parseGroceryLines(fetch.text)
         = KeepLines(NonEmpty(MapCollapseTrim(SplitLines(fetch.text))))

\* A pass of the loop reads a weight-priced line while an item is pending
\* (every pending item has its quantity and price from a weight line).
WeightPass ==
  /\ fetch.pc = "items"
  /\ fetch.line <= Len(fetch.lines)
  /\ ~IsFooter(fetch.lines[fetch.line])
  /\ ~isDiscountLine(fetch.lines[fetch.line])
  /\ parseWeightLine(fetch.lines[fetch.line]) # <<>>
  /\ fetch.pending # <<>>

\* C39: the pending register never loses a priced line: a weight-priced
\* line read while an item is pending does not overwrite the quantity and
\* price an earlier weight line gave to that item: after the pass the item
\* is still pending with them, or it has been pushed with them.
C39_WeightLineKeepsPending ==
  [][ WeightPass =>
        LET old == fetch.pending[1]
            n == Len(fetch.items)
        IN \/ /\ fetch'.pending # <<>>
              /\ fetch'.pending[1].qty = old.qty
              /\ fetch'.pending[1].price = old.price
           \/ /\ Len(fetch'.items) > n
              /\ fetch'.items[n + 1].qty = old.qty
              /\ fetch'.items[n + 1].price = old.price
    ]_vars

====
